---- MODULE Spec2Model ----
(***************************************************************************)
(* WeCom (enterprise WeChat) channel plugin: the webhook handler, its      *)
(* message de-duplication cache and the helpers they call.                 *)
(*                                                                         *)
(* Sources: src/unnamed/part_001 (channel.ts: isMessageProcessed,          *)
(* processMediaMessage, processInboundMessage, handleWeComWebhook) and     *)
(* src/unnamed/part_003 (wecom-api.ts: getAccessToken, clearTokenCache,    *)
(* validateSignature, decryptMessage, parseXmlMessage, readRequestBody,    *)
(* parseQuery, the send operations, downloadMedia).                        *)
(***************************************************************************)
EXTENDS Integers, Sequences, FiniteSets, TLC

VARIABLES
    now,              \* Date.now(), in milliseconds
    ticks,            \* number of clock advances so far (bounded)
    processedMsgIds,  \* const processedMsgIds = new Map<string, number>()
    lastCall,         \* history: the latest isMessageProcessed call and what it saw
    admitted,         \* history: per identifier, the time of its latest "new" report
    fresh,            \* number of filler identifiers handed out so far
    calls,            \* number of direct isMessageProcessed calls so far (bounded)
    conn,             \* per HTTP request: the handler's position, req, res and locals
    tokenCache,       \* const tokenCache: Map<string, TokenCache> = new Map()
    tokenLog,         \* history: per key, when its entry was stored and with which expires_in
    issued,           \* number of access tokens the token endpoint has issued
    entries,          \* number of calls made into the outbound entry points (bounded)
    cleared,          \* history: the latest clearTokenCache and what happened since
    tcall,            \* per caller of the platform API: its position and locals
    dlv,              \* the deliver callback: its position, payload and locals
    dl,               \* downloadMedia: its position, locals and the file system
    crypto            \* the latest direct call of validateSignature or decryptMessage

dedupVars == <<now, ticks, processedMsgIds, lastCall, admitted, fresh, calls>>

tokenVars == <<tokenCache, tokenLog, issued, entries, cleared, tcall>>

vars == <<now, ticks, processedMsgIds, lastCall, admitted, fresh, calls, conn,
          tokenCache, tokenLog, issued, entries, cleared, tcall, dlv, dl, crypto>>

outVars == <<dlv, dl, crypto>>

(***************************************************************************)
(* Program constants (part_001:30-31).                                     *)
(***************************************************************************)
MSG_ID_CACHE_TTL == 60000

MSG_ID_CACHE_MAX_SIZE == 1000

(***************************************************************************)
(* Bounds of the model.                                                    *)
(***************************************************************************)
\* clock advances explored by SpecDedup
MaxTicks == 3

\* direct isMessageProcessed calls explored by SpecDedup
MaxCalls == 3

\* "no timestamp": the identifier has no entry / was never reported new
NoTime == 0 - 1

\* The clock advances by one millisecond or by exactly the TTL, so that entry
\* ages of TTL - 1 .. TTL + 2 all occur.
TickDeltas == {1, MSG_ID_CACHE_TTL}

\* Identifiers that deliveries repeat.
TrackedIds == {"m1", "m2"}

\* Identifiers that are delivered once: "f1", "f2", ...
Filler(n) == "f" \o ToString(n)

\* A cache holding k filler identifiers, all first seen at time 0: the state
\* after k distinct deliveries within the same millisecond.
Prefilled(k) == [id \in {Filler(n) : n \in 1..k} |-> 0]

\* Cache sizes the exploration starts from: empty, just below the sweep
\* threshold (MAX_SIZE / 2), and just below MAX_SIZE.
PrefillSizes == {0, (MSG_ID_CACHE_MAX_SIZE \div 2) - 1, MSG_ID_CACHE_MAX_SIZE - 1}

(***************************************************************************)
(* isMessageProcessed (part_001:36-56).                                    *)
(***************************************************************************)
Size(cache) == Cardinality(DOMAIN cache)

\* Mutant: the sweep runs whatever the size of the map.
SweepDue_always(cache) == Size(cache) >= 0

\* Mutant: the sweep waits until the map holds more than MAX_SIZE entries.
SweepDue_full(cache) == Size(cache) > MSG_ID_CACHE_MAX_SIZE

\* if (processedMsgIds.size > MSG_ID_CACHE_MAX_SIZE / 2): the division is a
\* floating point one, so the test is 2 * size > MAX_SIZE.
SweepDue(cache) == 2 * Size(cache) > MSG_ID_CACHE_MAX_SIZE

\* Mutant: an entry is dropped as soon as its age reaches the TTL.
Expired_atTtl(timestamp, t) == t - timestamp >= MSG_ID_CACHE_TTL

\* if (now - timestamp > MSG_ID_CACHE_TTL) processedMsgIds.delete(id)
Expired(timestamp, t) == t - timestamp > MSG_ID_CACHE_TTL

Sweep(cache, t) ==
    IF SweepDue(cache)
    THEN [id \in {i \in DOMAIN cache : ~Expired(cache[i], t)} |-> cache[id]]
    ELSE cache

\* Mutant: a duplicate refreshes the stored timestamp.
isMessageProcessed_refresh(cache, msgId, t) ==
    LET swept == Sweep(cache, t)
    IN  IF msgId \in DOMAIN swept
        THEN [dup |-> TRUE, cache |-> (msgId :> t) @@ swept]
        ELSE [dup |-> FALSE, cache |-> swept @@ (msgId :> t)]

\* Mutant: a full map refuses the insert.
isMessageProcessed_capped(cache, msgId, t) ==
    LET swept == Sweep(cache, t)
    IN  IF msgId \in DOMAIN swept
        THEN [dup |-> TRUE, cache |-> swept]
        ELSE IF Size(swept) >= MSG_ID_CACHE_MAX_SIZE
             THEN [dup |-> FALSE, cache |-> swept]
             ELSE [dup |-> FALSE, cache |-> swept @@ (msgId :> t)]

\* Mutant: the identifier is looked up but not put into the map, as if the
\* insert came after a later await.
isMessageProcessed_checkOnly(cache, msgId, t) ==
    LET swept == Sweep(cache, t)
    IN  [dup |-> msgId \in DOMAIN swept, cache |-> swept]

\* Returns the function's result (dup: true = already processed) and the map
\* it leaves behind.
isMessageProcessed(cache, msgId, t) ==
    LET swept == Sweep(cache, t)
    IN  IF msgId \in DOMAIN swept
        THEN [dup |-> TRUE, cache |-> swept]
        ELSE [dup |-> FALSE, cache |-> swept @@ (msgId :> t)]

TsOf(cache, id) == IF id \in DOMAIN cache THEN cache[id] ELSE NoTime

\* The history record of one call.
CallRecord(cache, adm, msgId, t, r) ==
    [made |-> TRUE, id |-> msgId, at |-> t, dup |-> r.dup,
     sizeBefore |-> Size(cache), tsBefore |-> TsOf(cache, msgId),
     prevNew |-> TsOf(adm, msgId)]

NoCall ==
    [made |-> FALSE, id |-> "", at |-> 0, dup |-> FALSE,
     sizeBefore |-> 0, tsBefore |-> NoTime, prevNew |-> NoTime]

Admit(adm, msgId, t, r) == IF r.dup THEN adm ELSE (msgId :> t) @@ adm

(***************************************************************************)
(* Strings that are signed are modelled as sequences of character codes,   *)
(* so that they can be sorted as Array.prototype.sort() sorts them.        *)
(***************************************************************************)
RECURSIVE LexLeq(_, _)
LexLeq(a, b) ==
    IF a = << >> THEN TRUE
    ELSE IF b = << >> THEN FALSE
    ELSE IF Head(a) # Head(b) THEN Head(a) < Head(b)
    ELSE LexLeq(Tail(a), Tail(b))

\* [token, timestamp, nonce, encrypt].sort()
SortStrings(parts) ==
    LET n == Len(parts)
        perm == CHOOSE f \in [1..n -> 1..n] :
                    /\ \A i, j \in 1..n : i # j => f[i] # f[j]
                    /\ \A i \in 1..(n - 1) : LexLeq(parts[f[i]], parts[f[i + 1]])
    IN  [i \in 1..n |-> parts[perm[i]]]

\* parts.join("")
RECURSIVE Join(_)
Join(parts) == IF parts = << >> THEN << >> ELSE Head(parts) \o Join(Tail(parts))

\* crypto.createHash("sha1").update(str).digest("hex"): a digest that is a
\* function of the whole input and of nothing else (no collisions).
Sha1Hex(str) == <<Len(str)>> \o str

\* Mutant: the strings are joined in the order they are passed in.
validateSignature_asPassed(token, timestamp, nonce, encrypt, signature) ==
    signature = Sha1Hex(Join(<<token, timestamp, nonce, encrypt>>))

\* validateSignature (part_003:65-76)
validateSignature(token, timestamp, nonce, encrypt, signature) ==
    signature = Sha1Hex(Join(SortStrings(<<token, timestamp, nonce, encrypt>>)))

(***************************************************************************)
(* Text: a string is its free text and the XML elements it holds, in order.*)
(***************************************************************************)
Text(s) == [raw |-> s, tags |-> << >>]

Xml(tags) == [raw |-> "", tags |-> tags]

\* The envelope a base64 cipher text decrypts to under the AES key it was
\* made with: pad length, message, trailing corp identifier.  Frames[c[1]]
\* is the envelope of cipher text c.
Frame(key, pad, msg, corp) == [key |-> key, pad |-> pad, msg |-> msg, corp |-> corp]

\* A well-formed envelope ends in a pad length of at most 32.
GoodPad == 30 - 23

\* A last byte that is no pad length.
BadPad == 32 + 1

Msg(type, id, extra) ==
    Xml(<<<<"MsgType", type>>, <<"FromUserName", "u1">>, <<"CreateTime", "100">>>>
        \o (IF id = "" THEN << >> ELSE <<<<"MsgId", id>>>>) \o extra)

Frames == <<
    Frame("key1", GoodPad, Text("echo-1"), "corp1"),                            \* 1
    Frame("key1", BadPad,  Text("echo-1"), "corp1"),                            \* 2
    Frame("key1", GoodPad, Text("echo-1"), "corp2"),                            \* 3
    Frame("key1", GoodPad, Msg("text", "m1", <<<<"Content", "hello">>>>), "corp1"),      \* 4
    Frame("key1", GoodPad, Msg("text", "m1", << >>), "corp1"),                  \* 5
    Frame("key1", GoodPad, Msg("text", "m2", <<<<"Content", "hi">>>>), "corp1"),         \* 6
    Frame("key1", GoodPad, Msg("image", "m1", <<<<"MediaId", "med1">>>>), "corp1"),      \* 7
    Frame("key1", GoodPad, Msg("image", "m2", << >>), "corp1"),                 \* 8
    Frame("key1", GoodPad, Msg("file", "m2", <<<<"MediaId", "med2">>>>), "corp1"),       \* 9
    Frame("key1", GoodPad, Msg("location", "m2", <<<<"Label", "here">>>>), "corp1"),     \* 10
    Frame("key1", GoodPad, Msg("link", "m2", <<<<"Title", "t">>>>), "corp1"),            \* 11
    Frame("key1", GoodPad, Msg("event", "", <<<<"Event", "click">>, <<"EventKey", "/reset">>>>), "corp1"), \* 12
    Frame("key1", GoodPad, Msg("event", "", <<<<"Event", "click">>>>), "corp1"),         \* 13
    Frame("key1", GoodPad, Msg("event", "", <<<<"Event", "subscribe">>>>), "corp1"),     \* 14
    Frame("key1", GoodPad, Msg("event", "", <<<<"Event", "unsubscribe">>>>), "corp1"),   \* 15
    Frame("key1", GoodPad, Msg("event", "", <<<<"Event", "location">>>>), "corp1"),      \* 16
    Frame("key1", GoodPad, Msg("event", "", <<<<"Event", "view">>>>), "corp1"),          \* 17
    Frame("key1", GoodPad, Msg("shortvideo", "m2", << >>), "corp1"),            \* 18
    Frame("key2", GoodPad, Msg("text", "m1", <<<<"Content", "hello">>>>), "corp2") >>    \* 19

\* decryptMessage (part_003:81-109).  ok = FALSE: the function throws.  Under
\* another key the cipher text decrypts to noise, whose last byte or trailing
\* bytes fail the checks below.
decryptMessage(encodingAesKey, corpId, cipherText) ==
    LET f == Frames[cipherText[1]]
    IN  IF f.key # encodingAesKey \/ f.pad > 32 \/ f.corp # corpId
        THEN [ok |-> FALSE, msg |-> Text("")]
        ELSE [ok |-> TRUE, msg |-> f.msg]

(***************************************************************************)
(* decryptMessage on bytes (part_003:81-109).  A buffer is a sequence of   *)
(* bytes, a string a sequence of code points.  A cipher text is the plain  *)
(* buffer it was made from together with the key it was made with.         *)
(***************************************************************************)
RECURSIVE Utf8Encode(_)
\* Buffer.from(str, "utf8"), for code points below 2048
Utf8Encode(str) ==
    IF str = << >> THEN << >>
    ELSE (IF Head(str) < 128 THEN <<Head(str)>>
          ELSE <<192 + (Head(str) \div 64), 128 + (Head(str) % 64)>>)
         \o Utf8Encode(Tail(str))

\* U+FFFD, which toString("utf8") gives for bytes that are no UTF-8
Replacement == 65533 + 0

RECURSIVE Utf8Decode(_)
\* buf.toString("utf8") (part_003:101-102)
Utf8Decode(buf) ==
    IF buf = << >> THEN << >>
    ELSE IF buf[1] < 128 THEN <<buf[1]>> \o Utf8Decode(Tail(buf))
    ELSE IF /\ buf[1] \in 194..223
            /\ Len(buf) >= 2
            /\ buf[2] \in 128..191
    THEN <<(buf[1] - 192) * 64 + (buf[2] - 128)>> \o Utf8Decode(Tail(Tail(buf)))
    ELSE <<Replacement>> \o Utf8Decode(Tail(buf))

\* buf.subarray(start, end): the indices are clamped to the buffer.
Subarray(buf, start, end) ==
    LET hi == IF end > Len(buf) THEN Len(buf) ELSE IF end < 0 THEN 0 ELSE end
        lo == IF start > hi THEN hi ELSE start
    IN  [i \in 1..(hi - lo) |-> buf[lo + i]]

\* buf.readUInt32BE(offset) (part_003:100)
ReadUInt32BE(buf, offset) ==
    buf[offset + 1] * 16777216 + buf[offset + 2] * 65536
        + buf[offset + 3] * 256 + buf[offset + 4]

\* The four bytes readUInt32BE reads back as n.
UInt32BE(n) == <<n \div 16777216, (n \div 65536) % 256, (n \div 256) % 256, n % 256>>

Repeat(byte, n) == [i \in 1..n |-> byte]

\* The platform's encrypt, the inverse the protocol prescribes: 16 random
\* bytes, the length of the message in four bytes, the message, the corp
\* identifier, padded to a multiple of 32 bytes with the pad length.
Encrypt(key, random, m, corpId) ==
    LET body == random \o UInt32BE(Len(Utf8Encode(m))) \o Utf8Encode(m) \o Utf8Encode(corpId)
        pad == 32 - (Len(body) % 32)
    IN  [key |-> key, plain |-> body \o Repeat(pad, pad)]

\* decipher.update(data) + decipher.final() without automatic padding
\* (part_003:86-91): the plain buffer under the key the cipher text was made
\* with, and other bytes of the same length under another key.
Decipher(key, cipherText) ==
    IF cipherText.key = key THEN cipherText.plain
    ELSE [i \in DOMAIN cipherText.plain |-> (cipherText.plain[i] * 7 + 101 + i) % 256]

\* What decryptMessage returns or throws.
Decrypted(msg) == [ok |-> TRUE, msg |-> msg, error |-> ""]

DecryptError(error) == [ok |-> FALSE, msg |-> << >>, error |-> error]

\* Mutant: pad lengths above 16 are refused.
decryptMessageBytes_block16(encodingAesKey, corpId, cipherText) ==
    LET data == Decipher(encodingAesKey, cipherText)
        padLen == IF data = << >> THEN 0 ELSE data[Len(data)]
        decrypted == Subarray(data, 0, Len(data) - padLen)
    IN  IF padLen > 16 THEN DecryptError("padding")
        ELSE IF Len(decrypted) < 20 THEN DecryptError("range")
        ELSE LET msgLen == ReadUInt32BE(decrypted, 16)
                 msg == Utf8Decode(Subarray(decrypted, 20, 20 + msgLen))
                 receivedCorpId == Utf8Decode(Subarray(decrypted, 20 + msgLen, Len(decrypted)))
             IN  IF receivedCorpId # corpId THEN DecryptError("CorpID mismatch")
                 ELSE Decrypted(msg)

\* decryptMessage (part_003:81-109) on the bytes.  A last byte above 32
\* throws; readUInt32BE throws a RangeError on a buffer shorter than 20.
decryptMessageBytes(encodingAesKey, corpId, cipherText) ==
    LET data == Decipher(encodingAesKey, cipherText)
        padLen == IF data = << >> THEN 0 ELSE data[Len(data)]
        decrypted == Subarray(data, 0, Len(data) - padLen)
    IN  IF padLen > 32 THEN DecryptError("padding")
        ELSE IF Len(decrypted) < 20 THEN DecryptError("range")
        ELSE LET msgLen == ReadUInt32BE(decrypted, 16)
                 msg == Utf8Decode(Subarray(decrypted, 20, 20 + msgLen))
                 receivedCorpId == Utf8Decode(Subarray(decrypted, 20 + msgLen, Len(decrypted)))
             IN  IF receivedCorpId # corpId THEN DecryptError("CorpID mismatch")
                 ELSE Decrypted(msg)

\* One call of a helper: its arguments and what it gave.
NoCryptoCall == [fn |-> "", args |-> << >>, result |-> FALSE]

\* parseXmlMessage (part_003:114-124): result[match[1]] = ..., so of two
\* elements with one name the later one stays.
parseXmlMessage(xml) ==
    LET names == {xml.tags[i][1] : i \in DOMAIN xml.tags}
        last(n) == CHOOSE i \in DOMAIN xml.tags :
                       /\ xml.tags[i][1] = n
                       /\ \A j \in DOMAIN xml.tags : xml.tags[j][1] = n => j <= i
    IN  [n \in names |-> xml.tags[last(n)][2]]

\* msg.Field || "": an absent field and an empty one are both falsy.
Field(msg, name) == IF name \in DOMAIN msg THEN msg[name] ELSE ""

\* ${msg.Field} in a template literal.
Tpl(msg, name) == IF name \in DOMAIN msg THEN msg[name] ELSE "undefined"

(***************************************************************************)
(* Accounts: cfg.channels.wecom.accounts (part_001:192-243).               *)
(***************************************************************************)
DEFAULT_ACCOUNT == "default"

\* WeComAccountConfig (part_003:5-13)
Account(enabled, corpId, corpSecret, agentId, token, key) ==
    [enabled |-> enabled, corpId |-> corpId, corpSecret |-> corpSecret,
     agentId |-> agentId, token |-> token, encodingAesKey |-> key]

channelAccounts ==
    [default |-> Account(TRUE, "corp1", "secret1", "1000002", <<7>>, "key1"),
     second  |-> Account(TRUE, "corp2", "secret2", "1000003", <<8>>, "key2"),
     off     |-> Account(FALSE, "corp1", "secret1", "1000002", <<7>>, "key1"),
     nocorp  |-> Account(TRUE, "", "secret1", "1000002", <<7>>, "key1")]

\* resolveAccountConfig in multi-account mode (no plugin configuration and
\* no channel-level corpId): the account of that name, else the disabled
\* default.
resolveAccountConfig(accountId) ==
    IF accountId \in DOMAIN channelAccounts
    THEN channelAccounts[accountId]
    ELSE Account(FALSE, "", "", "", << >>, "")

(***************************************************************************)
(* getAccessToken and the token cache (part_003:21-60).                    *)
(***************************************************************************)
\* const cacheKey = `${config.corpId}:${config.agentId}`
CacheKey(config) == config.corpId \o ":" \o config.agentId

NoEntry == [has |-> FALSE, token |-> 0, expiry |-> 0]

\* tokenCache.get(cacheKey)
CacheGet(cache, key) ==
    IF key \in DOMAIN cache
    THEN [has |-> TRUE, token |-> cache[key].token, expiry |-> cache[key].expiry]
    ELSE NoEntry

\* Mutant: an entry is still served at the instant of its expiry.
TokenFresh_atExpiry(cache, key, t) == key \in DOMAIN cache /\ t <= cache[key].expiry

\* cached && Date.now() < cached.expiry
TokenFresh(cache, key, t) == key \in DOMAIN cache /\ t < cache[key].expiry

\* expires_in values the token endpoint answers with, in seconds: the
\* platform's usual two hours, and the skew of part_003:49 itself.
ExpiresIn == {7200, 120}

\* What the request to the token endpoint can come back with: a token, an
\* error envelope (errcode 40013: invalid corpid), or a rejected fetch.
TokenReplies ==
    {[rejected |-> FALSE, errcode |-> 0, errmsg |-> "ok", expires_in |-> E] : E \in ExpiresIn}
    \cup {[rejected |-> FALSE, errcode |-> 40013, errmsg |-> "invalid corpid", expires_in |-> 0],
          [rejected |-> TRUE, errcode |-> 0, errmsg |-> "", expires_in |-> 0]}

\* The replies explored for the getAccessToken of a media download, where
\* the lifetime of the token plays no part.
DownloadReplies == {reply \in TokenReplies : reply.expires_in # 120}

\* The message of the Error of part_003:44
TokenError(reply) ==
    "access_token failed: " \o ToString(reply.errcode) \o " " \o reply.errmsg

\* Mutant: the reply is stored whatever its errcode.
TokenSettle_storeAlways(cache, key, reply, token, t) ==
    IF reply.rejected
    THEN [ok |-> FALSE, cache |-> cache, token |-> 0, error |-> "fetch failed"]
    ELSE [ok |-> reply.errcode = 0,
          cache |-> (key :> [token |-> token,
                             expiry |-> t + (reply.expires_in - 120) * 1000]) @@ cache,
          token |-> IF reply.errcode = 0 THEN token ELSE 0,
          error |-> IF reply.errcode = 0 THEN "" ELSE TokenError(reply)]

\* Mutant: a reply that finds a fresh entry in the cache leaves it there and
\* returns its token.
TokenSettle_keepFresh(cache, key, reply, token, t) ==
    IF reply.rejected
    THEN [ok |-> FALSE, cache |-> cache, token |-> 0, error |-> "fetch failed"]
    ELSE IF reply.errcode # 0
    THEN [ok |-> FALSE, cache |-> cache, token |-> 0, error |-> TokenError(reply)]
    ELSE IF TokenFresh(cache, key, t)
    THEN [ok |-> TRUE, cache |-> cache, token |-> cache[key].token, error |-> ""]
    ELSE [ok |-> TRUE,
          cache |-> (key :> [token |-> token,
                             expiry |-> t + (reply.expires_in - 120) * 1000]) @@ cache,
          token |-> token, error |-> ""]

\* getAccessToken from the reply of the token endpoint on (part_003:36-52):
\* a nonzero errcode throws; otherwise the entry of the key is set, with the
\* time at which the reply is handled.
TokenSettle(cache, key, reply, token, t) ==
    IF reply.rejected
    THEN [ok |-> FALSE, cache |-> cache, token |-> 0, error |-> "fetch failed"]
    ELSE IF reply.errcode # 0
    THEN [ok |-> FALSE, cache |-> cache, token |-> 0, error |-> TokenError(reply)]
    ELSE [ok |-> TRUE,
          cache |-> (key :> [token |-> token,
                             expiry |-> t + (reply.expires_in - 120) * 1000]) @@ cache,
          token |-> token, error |-> ""]

\* History: what was stored for a key, and when.
NoLog == [has |-> FALSE, at |-> NoTime, expires_in |-> 0, token |-> 0]

LogGet(log, key) == IF key \in DOMAIN log THEN log[key] ELSE NoLog

LogStore(log, key, reply, token, t) ==
    (key :> [has |-> TRUE, at |-> t, expires_in |-> reply.expires_in, token |-> token]) @@ log

\* History of clearTokenCache (part_003:58-60): whether it was called, and
\* since its latest call, the keys getAccessToken was called for and the
\* keys whose entry was stored before any such call.
NoClear == [on |-> FALSE, asked |-> {}, stored |-> {}]

Asked(cl, key) == IF cl.on THEN [cl EXCEPT !.asked = @ \cup {key}] ELSE cl

Stored(cl, key) ==
    IF cl.on /\ key \notin cl.asked THEN [cl EXCEPT !.stored = @ \cup {key}] ELSE cl

(***************************************************************************)
(* Callers of the platform API: the outbound entry points of the plugin    *)
(* (part_001:923-977) and direct callers of getAccessToken.  A caller runs *)
(* a list of operations; each begins with getAccessToken (part_003:165,    *)
(* 236, 267) and, but for "token", goes on to one request to the platform. *)
(***************************************************************************)
NoCaller ==
    [pc |-> "idle", via |-> "", accountId |-> "", cfg |-> Account(FALSE, "", "", "", << >>, ""),
     ops |-> << >>, net |-> << >>, seen |-> NoEntry, seenLog |-> NoLog, at |-> NoTime,
     hit |-> FALSE, token |-> 0, result |-> "none", error |-> ""]

\* The operations of an entry point, in the order it awaits them.
\*   getAccessToken: one direct call;
\*   sendText (part_001:925-937): sendWeComMessage;
\*   sendMedia (part_001:938-960): uploadMedia and sendWeComImage when the
\*     file exists, then sendWeComMessage when there is a text;
\*   gatewayStart (part_001:964-974): createMenu, for an enabled default
\*     account with a corpId only.
Program(via, cfg, hasMedia, text) ==
    IF via = "getAccessToken" THEN <<"token">>
    ELSE IF via = "sendText" THEN <<"message/send">>
    ELSE IF via = "sendMedia"
    THEN (IF hasMedia THEN <<"media/upload", "message/send">> ELSE << >>)
         \o (IF text # "" THEN <<"message/send">> ELSE << >>)
    ELSE IF cfg.enabled /\ cfg.corpId # "" THEN <<"menu/create">>
    ELSE << >>

Done(rec, result, error) ==
    [rec EXCEPT !.pc = "done", !.ops = << >>, !.result = result, !.error = error]

\* getAccessToken has returned rec.token: the operation sends its request.
WithToken(rec) ==
    IF Head(rec.ops) = "token"
    THEN Done(rec, "ok", "")
    ELSE [rec EXCEPT !.pc = "api", !.net = Append(@, Head(rec.ops))]

\* getAccessToken up to its first await (part_003:26-35) for the operation
\* at the head of rec.ops: the cached token, or a request to the endpoint.
Lookup(rec, cache, log, t) ==
    LET key == CacheKey(rec.cfg)
        rec1 == [rec EXCEPT !.seen = CacheGet(cache, key), !.seenLog = LogGet(log, key),
                            !.at = t]
    IN  IF TokenFresh(cache, key, t)
        THEN WithToken([rec1 EXCEPT !.hit = TRUE, !.token = cache[key].token])
        ELSE [rec1 EXCEPT !.hit = FALSE, !.token = 0, !.pc = "token",
                          !.net = Append(@, "gettoken")]

\* An entry point is called.
Begin(e, cache, log, t) ==
    LET cfg == resolveAccountConfig(IF e.accountId = "" THEN DEFAULT_ACCOUNT ELSE e.accountId)
        rec == [NoCaller EXCEPT !.via = e.via, !.accountId = e.accountId, !.cfg = cfg,
                                !.ops = Program(e.via, cfg, e.hasMedia, e.text)]
    IN  IF rec.ops = << >> THEN Done(rec, "ok", "") ELSE Lookup(rec, cache, log, t)

\* The request of the operation at the head of rec.ops has been answered.
\* An error ends the entry point: it is caught there (part_001:931, 954,
\* 297) and becomes its result.
AfterApi(rec, ok, cache, log, t) ==
    IF ~ok THEN Done(rec, "error", Head(rec.ops) \o " failed")
    ELSE IF Tail(rec.ops) = << >> THEN Done(rec, "ok", "")
    ELSE Lookup([rec EXCEPT !.ops = Tail(@)], cache, log, t)

EntryCall(via, accountId, hasMedia, text) ==
    [via |-> via, accountId |-> accountId, hasMedia |-> hasMedia, text |-> text]

\* Direct calls of getAccessToken, for two keys.
TokenCalls == {EntryCall("getAccessToken", a, FALSE, "") : a \in {"", "second"}}

\* Calls into the outbound entry points: sendText and sendMedia for the
\* default account, for an account whose corpId is empty and for one that
\* is not configured, sendMedia with and without a file and a text; the
\* gateway's start.
OutboundCalls ==
    {EntryCall("sendText", a, FALSE, "hi") : a \in {"", "nocorp", "ghost"}}
    \cup {EntryCall("sendMedia", a, m, t) : a \in {"", "nocorp"}, m \in BOOLEAN, t \in {"", "hi"}}
    \cup {EntryCall("gatewayStart", "", FALSE, "")}

(***************************************************************************)
(* The response object and the per-request record.                         *)
(***************************************************************************)
NoRes == [ended |-> 0, statusCode |-> 200, contentType |-> "", allow |-> "", body |-> Text("")]

\* res.statusCode = ...; res.setHeader("Content-Type", ...); res.end(body)
End(res, status, contentType, body) ==
    [res EXCEPT !.ended = @ + 1, !.statusCode = status,
                !.contentType = contentType, !.body = body]

\* JSON.stringify({ error: text })
JsonError(text) == Text("{\"error\":\"" \o text \o "\"}")

Success(res) == End(res, 200, "text/plain", Text("success"))

NoReq ==
    [pathname |-> << >>, method |-> "", account |-> "", signature |-> << >>,
     timestamp |-> << >>, nonce |-> << >>, echostr |-> << >>,
     hasEncrypt |-> FALSE, encrypt |-> << >>]

Idle ==
    [pc |-> "idle", req |-> NoReq, handled |-> "none", res |-> NoRes, ev |-> << >>,
     msg |-> << >>, messageId |-> "", dup |-> "none", tsBefore |-> NoTime,
     tsAfter |-> NoTime, download |-> "none", text |-> "", mediaFilePath |-> "",
     task |-> "none"]

\* return true after the response was ended
Return(c, res) == [c EXCEPT !.pc = "returned", !.handled = "true", !.res = res]

Called(c, name) == [c EXCEPT !.ev = Append(@, name)]

\* pathname.startsWith("/webhooks/wecom"): a path is its prefix and the rest
StartsWith(pathname, prefix) ==
    /\ Len(pathname) >= Len(prefix)
    /\ SubSeq(pathname, 1, Len(prefix)) = prefix

WebhookPrefix == <<"/webhooks/wecom">>

AccountOf(q) == resolveAccountConfig(IF q.account = "" THEN DEFAULT_ACCOUNT ELSE q.account)

(***************************************************************************)
(* handleWeComWebhook, GET (part_001:600-632).                             *)
(***************************************************************************)
\* Mutant: echostr is decrypted before the signature is looked at.
GetVerdict_decryptFirst(q, cfg) ==
    IF q.signature = << >> \/ q.timestamp = << >> \/ q.nonce = << >> \/ q.echostr = << >>
    THEN [status |-> 400, body |-> Text("Missing parameters"), ev |-> << >>]
    ELSE LET d == decryptMessage(cfg.encodingAesKey, cfg.corpId, q.echostr)
         IN  IF ~d.ok
             THEN [status |-> 500, body |-> Text("Decrypt failed"),
                   ev |-> <<"decryptMessage">>]
             ELSE IF ~validateSignature(cfg.token, q.timestamp, q.nonce, q.echostr, q.signature)
             THEN [status |-> 401, body |-> Text("Invalid signature"),
                   ev |-> <<"decryptMessage", "validateSignature">>]
             ELSE [status |-> 200, body |-> d.msg,
                   ev |-> <<"decryptMessage", "validateSignature">>]

\* Mutant: echostr is decrypted without a look at the signature.
GetVerdict_unverified(q, cfg) ==
    IF q.signature = << >> \/ q.timestamp = << >> \/ q.nonce = << >> \/ q.echostr = << >>
    THEN [status |-> 400, body |-> Text("Missing parameters"), ev |-> << >>]
    ELSE LET d == decryptMessage(cfg.encodingAesKey, cfg.corpId, q.echostr)
         IN  IF d.ok
             THEN [status |-> 200, body |-> d.msg, ev |-> <<"decryptMessage">>]
             ELSE [status |-> 500, body |-> Text("Decrypt failed"),
                   ev |-> <<"decryptMessage">>]

\* The status and body the GET branch ends the response with, and the calls
\* it made on the way.
GetVerdict(q, cfg) ==
    IF q.signature = << >> \/ q.timestamp = << >> \/ q.nonce = << >> \/ q.echostr = << >>
    THEN [status |-> 400, body |-> Text("Missing parameters"), ev |-> << >>]
    ELSE IF ~validateSignature(cfg.token, q.timestamp, q.nonce, q.echostr, q.signature)
    THEN [status |-> 401, body |-> Text("Invalid signature"), ev |-> <<"validateSignature">>]
    ELSE LET d == decryptMessage(cfg.encodingAesKey, cfg.corpId, q.echostr)
         IN  IF d.ok
             THEN [status |-> 200, body |-> d.msg,
                   ev |-> <<"validateSignature", "decryptMessage">>]
             ELSE [status |-> 500, body |-> Text("Decrypt failed"),
                   ev |-> <<"validateSignature", "decryptMessage">>]

(***************************************************************************)
(* handleWeComWebhook from its entry to the first await or return          *)
(* (part_001:573-643).                                                     *)
(***************************************************************************)
\* Mutant: the account is tested for its enabled flag alone.
HandleStart_flagOnly(q) ==
    LET c == [Idle EXCEPT !.req = q]
        cfg == AccountOf(q)
    IN  IF ~StartsWith(q.pathname, WebhookPrefix)
        THEN [c EXCEPT !.pc = "returned", !.handled = "false"]
        ELSE IF ~cfg.enabled
        THEN Return(Called(c, "res.end"), End(c.res, 404, "", Text("Account not found")))
        ELSE IF q.method = "GET"
        THEN LET v == GetVerdict(q, cfg)
             IN  Return([c EXCEPT !.ev = v.ev \o <<"res.end">>],
                        End(c.res, v.status, "", v.body))
        ELSE IF q.method = "POST"
        THEN IF q.signature = << >> \/ q.timestamp = << >> \/ q.nonce = << >>
             THEN Return(Called(c, "res.end"),
                         End(c.res, 400, "application/json",
                             JsonError("Missing required parameters")))
             ELSE [c EXCEPT !.pc = "body", !.ev = <<"readRequestBody">>]
        ELSE Return(Called(c, "res.end"),
                    [End(c.res, 405, "", Text("Method Not Allowed")) EXCEPT
                        !.allow = "GET, POST"])

\* Mutant: the path is not looked at.
HandleStart_anyPath(q) ==
    LET c == [Idle EXCEPT !.req = q]
        cfg == AccountOf(q)
    IN  IF FALSE
        THEN [c EXCEPT !.pc = "returned", !.handled = "false"]
        ELSE IF ~cfg.enabled \/ cfg.corpId = ""
        THEN Return(Called(c, "res.end"), End(c.res, 404, "", Text("Account not found")))
        ELSE IF q.method = "GET"
        THEN LET v == GetVerdict(q, cfg)
             IN  Return([c EXCEPT !.ev = v.ev \o <<"res.end">>],
                        End(c.res, v.status, "", v.body))
        ELSE IF q.method = "POST"
        THEN IF q.signature = << >> \/ q.timestamp = << >> \/ q.nonce = << >>
             THEN Return(Called(c, "res.end"),
                         End(c.res, 400, "application/json",
                             JsonError("Missing required parameters")))
             ELSE [c EXCEPT !.pc = "body", !.ev = <<"readRequestBody">>]
        ELSE Return(Called(c, "res.end"),
                    [End(c.res, 405, "", Text("Method Not Allowed")) EXCEPT
                        !.allow = "GET, POST"])

\* Mutant: the 405 response carries no Allow header.
HandleStart_noAllow(q) ==
    LET c == [Idle EXCEPT !.req = q]
        cfg == AccountOf(q)
    IN  IF ~StartsWith(q.pathname, WebhookPrefix)
        THEN [c EXCEPT !.pc = "returned", !.handled = "false"]
        ELSE IF ~cfg.enabled \/ cfg.corpId = ""
        THEN Return(Called(c, "res.end"), End(c.res, 404, "", Text("Account not found")))
        ELSE IF q.method = "GET"
        THEN LET v == GetVerdict(q, cfg)
             IN  Return([c EXCEPT !.ev = v.ev \o <<"res.end">>],
                        End(c.res, v.status, "", v.body))
        ELSE IF q.method = "POST"
        THEN IF q.signature = << >> \/ q.timestamp = << >> \/ q.nonce = << >>
             THEN Return(Called(c, "res.end"),
                         End(c.res, 400, "application/json",
                             JsonError("Missing required parameters")))
             ELSE [c EXCEPT !.pc = "body", !.ev = <<"readRequestBody">>]
        ELSE Return(Called(c, "res.end"),
                    [End(c.res, 405, "", Text("Method Not Allowed")) EXCEPT
                        !.allow = ""])

HandleStart(q) ==
    LET c == [Idle EXCEPT !.req = q]
        cfg == AccountOf(q)
    IN  IF ~StartsWith(q.pathname, WebhookPrefix)
        THEN [c EXCEPT !.pc = "returned", !.handled = "false"]
        ELSE IF ~cfg.enabled \/ cfg.corpId = ""
        THEN Return(Called(c, "res.end"), End(c.res, 404, "", Text("Account not found")))
        ELSE IF q.method = "GET"
        THEN LET v == GetVerdict(q, cfg)
             IN  Return([c EXCEPT !.ev = v.ev \o <<"res.end">>],
                        End(c.res, v.status, "", v.body))
        ELSE IF q.method = "POST"
        THEN IF q.signature = << >> \/ q.timestamp = << >> \/ q.nonce = << >>
             THEN Return(Called(c, "res.end"),
                         End(c.res, 400, "application/json",
                             JsonError("Missing required parameters")))
             ELSE [c EXCEPT !.pc = "body", !.ev = <<"readRequestBody">>]
        ELSE Return(Called(c, "res.end"),
                    [End(c.res, 405, "", Text("Method Not Allowed")) EXCEPT
                        !.allow = "GET, POST"])

(***************************************************************************)
(* handleWeComWebhook, POST, after the body was read (part_001:644-793).   *)
(***************************************************************************)
\* Mutant: the payload is decrypted before its signature is verified.
PostVerdict_decryptFirst(q, cfg) ==
    IF ~q.hasEncrypt
    THEN [status |-> 400, error |-> "Invalid encrypted message format",
          ev |-> << >>, xml |-> Text("")]
    ELSE LET d == decryptMessage(cfg.encodingAesKey, cfg.corpId, q.encrypt)
         IN  IF ~d.ok
             THEN [status |-> 500, error |-> "Decrypt failed",
                   ev |-> <<"decryptMessage">>, xml |-> Text("")]
             ELSE IF ~validateSignature(cfg.token, q.timestamp, q.nonce, q.encrypt, q.signature)
             THEN [status |-> 401, error |-> "Invalid signature",
                   ev |-> <<"decryptMessage", "validateSignature">>, xml |-> Text("")]
             ELSE [status |-> 200, error |-> "",
                   ev |-> <<"decryptMessage", "validateSignature">>, xml |-> d.msg]

\* Lines 644-678: the <Encrypt> match, the signature and the decryption.
\* status 200: all passed, xml is the decrypted message.
PostVerdict(q, cfg) ==
    IF ~q.hasEncrypt
    THEN [status |-> 400, error |-> "Invalid encrypted message format",
          ev |-> << >>, xml |-> Text("")]
    ELSE IF ~validateSignature(cfg.token, q.timestamp, q.nonce, q.encrypt, q.signature)
    THEN [status |-> 401, error |-> "Invalid signature",
          ev |-> <<"validateSignature">>, xml |-> Text("")]
    ELSE LET d == decryptMessage(cfg.encodingAesKey, cfg.corpId, q.encrypt)
         IN  IF d.ok
             THEN [status |-> 200, error |-> "",
                   ev |-> <<"validateSignature", "decryptMessage">>, xml |-> d.msg]
             ELSE [status |-> 500, error |-> "Decrypt failed",
                   ev |-> <<"validateSignature", "decryptMessage">>, xml |-> Text("")]

\* const messageId = msg.MsgId || `${MsgType}_${Event || ''}_${CreateTime}_${FromUserName}`
MessageIdOf(msg) ==
    IF Field(msg, "MsgId") # ""
    THEN msg["MsgId"]
    ELSE Tpl(msg, "MsgType") \o "_" \o Field(msg, "Event") \o "_"
         \o Tpl(msg, "CreateTime") \o "_" \o Tpl(msg, "FromUserName")

MediaTypes == {"image", "voice", "video", "file"}

\* a || b on two fields of the message, printed in a template literal
Either(msg, a, b) ==
    IF Field(msg, a) # "" THEN msg[a]
    ELSE IF b \in DOMAIN msg THEN msg[b] ELSE "undefined"

\* processLocationMessage (part_001:149-164); "[location]" stands for the
\* source's Chinese label, " at " and " zoom " for the others.
processLocationMessage(msg) ==
    "[location]"
    \o (IF Field(msg, "Label") # "" THEN " " \o msg["Label"] ELSE "")
    \o " at " \o Either(msg, "Location_X", "Latitude")
    \o ", " \o Either(msg, "Location_Y", "Longitude")
    \o (IF Field(msg, "Scale") # "" THEN " zoom " \o msg["Scale"] ELSE "")

\* processLinkMessage (part_001:169-183); "untitled" stands for the
\* source's default title.
processLinkMessage(msg) ==
    "[link] "
    \o (IF Field(msg, "Title") # "" THEN msg["Title"] ELSE "untitled")
    \o (IF Field(msg, "Description") # "" THEN " / " \o msg["Description"] ELSE "")
    \o (IF Field(msg, "Url") # "" THEN " / " \o msg["Url"] ELSE "")

\* Mutant: a click event forwards the help request, not its EventKey.
TypeDispatch_clickHelp(msg) ==
    LET msgType == Field(msg, "MsgType")
        event == Field(msg, "Event")
    IN  IF msgType = "text" THEN [kind |-> "text", text |-> Field(msg, "Content")]
        ELSE IF msgType \in MediaTypes THEN [kind |-> "media", text |-> ""]
        ELSE IF msgType = "location"
        THEN [kind |-> "text", text |-> processLocationMessage(msg)]
        ELSE IF msgType = "link" THEN [kind |-> "text", text |-> processLinkMessage(msg)]
        ELSE IF msgType = "event"
        THEN IF event \in {"click", "subscribe"} THEN [kind |-> "text", text |-> "/help"]
             ELSE IF event = "unsubscribe" THEN [kind |-> "ack", text |-> ""]
             ELSE IF event = "location"
             THEN [kind |-> "text",
                   text |-> "[location report] " \o Tpl(msg, "Latitude") \o ", "
                            \o Tpl(msg, "Longitude") \o ", " \o Tpl(msg, "Precision")]
             ELSE [kind |-> "ack", text |-> ""]
        ELSE [kind |-> "ack", text |-> ""]

\* The switch on msg.MsgType (part_001:707-770): what the message turns
\* into.  "ack": answered 200 "success" and dropped inside the switch;
\* "media": processMediaMessage is awaited; "text": falls out of the switch.
TypeDispatch(msg) ==
    LET msgType == Field(msg, "MsgType")
        event == Field(msg, "Event")
    IN  IF msgType = "text" THEN [kind |-> "text", text |-> Field(msg, "Content")]
        ELSE IF msgType \in MediaTypes THEN [kind |-> "media", text |-> ""]
        ELSE IF msgType = "location"
        THEN [kind |-> "text", text |-> processLocationMessage(msg)]
        ELSE IF msgType = "link" THEN [kind |-> "text", text |-> processLinkMessage(msg)]
        ELSE IF msgType = "event"
        THEN IF event = "click" THEN [kind |-> "text", text |-> Field(msg, "EventKey")]
             ELSE IF event = "subscribe" THEN [kind |-> "text", text |-> "/help"]
             ELSE IF event = "unsubscribe" THEN [kind |-> "ack", text |-> ""]
             ELSE IF event = "location"
             THEN [kind |-> "text",
                   text |-> "[location report] " \o Tpl(msg, "Latitude") \o ", "
                            \o Tpl(msg, "Longitude") \o ", " \o Tpl(msg, "Precision")]
             ELSE [kind |-> "ack", text |-> ""]
        ELSE [kind |-> "ack", text |-> ""]

\* Mutant: a message with an empty text is forwarded like any other.
Forward_emptyToo(c, text, mediaFilePath) ==
    [c EXCEPT !.pc = "returned", !.handled = "true",
              !.ev = @ \o <<"res.end", "processInboundMessage">>,
              !.res = Success(@), !.text = text,
              !.mediaFilePath = mediaFilePath, !.task = "running"]

\* Lines 772-793: an empty text is acknowledged and dropped; otherwise the
\* response is ended and processInboundMessage is started, not awaited.
Forward(c, text, mediaFilePath) ==
    IF text = ""
    THEN Return(Called(c, "res.end"), Success(c.res))
    ELSE [c EXCEPT !.pc = "returned", !.handled = "true",
                   !.ev = @ \o <<"res.end", "processInboundMessage">>,
                   !.res = Success(@), !.text = text,
                   !.mediaFilePath = mediaFilePath, !.task = "running"]

\* Mutant: a duplicate is not answered at once but handled like a new message.
AfterAdmission_ignoreDup(c, dup) ==
    LET d == TypeDispatch(c.msg)
    IN  IF d.kind = "ack" THEN Return(Called(c, "res.end"), Success(c.res))
        ELSE IF d.kind = "media"
        THEN [c EXCEPT !.pc = "media",
                       !.ev = @ \o (IF Field(c.msg, "MediaId") # ""
                                    THEN <<"downloadMedia">> ELSE << >>)]
        ELSE Forward(c, d.text, "")

\* Mutant: a message dropped inside the switch is answered there and, the
\* return left out, once more by the test for an empty text.
AfterAdmission_noReturn(c, dup) ==
    IF dup
    THEN Return(Called(c, "res.end"), Success(c.res))
    ELSE LET d == TypeDispatch(c.msg)
         IN  IF d.kind = "ack"
             THEN Forward(Return(Called(c, "res.end"), Success(c.res)), "", "")
             ELSE IF d.kind = "media"
             THEN [c EXCEPT !.pc = "media",
                            !.ev = @ \o (IF Field(c.msg, "MediaId") # ""
                                         THEN <<"downloadMedia">> ELSE << >>)]
             ELSE Forward(c, d.text, "")

\* Lines 693-778, after isMessageProcessed returned dup.
AfterAdmission(c, dup) ==
    IF dup
    THEN Return(Called(c, "res.end"), Success(c.res))
    ELSE LET d == TypeDispatch(c.msg)
         IN  IF d.kind = "ack" THEN Return(Called(c, "res.end"), Success(c.res))
             ELSE IF d.kind = "media"
             THEN \* await processMediaMessage(...): downloadMedia is called
                  \* when the message has a MediaId (part_001:78-94)
                  [c EXCEPT !.pc = "media",
                            !.ev = @ \o (IF Field(c.msg, "MediaId") # ""
                                         THEN <<"downloadMedia">> ELSE << >>)]
             ELSE Forward(c, d.text, "")

\* Mutant: the message is admitted to the map before the signature and the
\* decryption have decided the response.
HandleBody_admitFirst(c, cache, t) ==
    LET q == c.req
        cfg == AccountOf(q)
        v == PostVerdict(q, cfg)
        id == IF q.hasEncrypt THEN MessageIdOf(parseXmlMessage(Frames[q.encrypt[1]].msg))
              ELSE "undefined"
        r == isMessageProcessed(cache, id, t)
    IN  IF v.status # 200
        THEN [c |-> Return([c EXCEPT !.ev = @ \o v.ev \o <<"res.end">>],
                           End(c.res, v.status, "application/json", JsonError(v.error))),
              cache |-> r.cache]
        ELSE LET msg == parseXmlMessage(v.xml)
                 c1 == [c EXCEPT !.ev = @ \o v.ev \o <<"isMessageProcessed">>,
                                 !.msg = msg, !.messageId = id,
                                 !.dup = IF r.dup THEN "dup" ELSE "new",
                                 !.tsBefore = TsOf(cache, id),
                                 !.tsAfter = TsOf(r.cache, id)]
             IN  [c |-> AfterAdmission(c1, r.dup), cache |-> r.cache]

\* Mutant: the map is keyed by the account's corp identifier and the
\* message identifier.
HandleBody_perAccount(c, cache, t) ==
    LET q == c.req
        cfg == AccountOf(q)
        v == PostVerdict(q, cfg)
    IN  IF v.status # 200
        THEN [c |-> Return([c EXCEPT !.ev = @ \o v.ev \o <<"res.end">>],
                           End(c.res, v.status, "application/json", JsonError(v.error))),
              cache |-> cache]
        ELSE LET msg == parseXmlMessage(v.xml)
                 id == cfg.corpId \o ":" \o MessageIdOf(msg)
                 r == isMessageProcessed(cache, id, t)
                 c1 == [c EXCEPT !.ev = @ \o v.ev \o <<"isMessageProcessed">>,
                                 !.msg = msg, !.messageId = id,
                                 !.dup = IF r.dup THEN "dup" ELSE "new",
                                 !.tsBefore = TsOf(cache, id),
                                 !.tsAfter = TsOf(r.cache, id)]
             IN  [c |-> AfterAdmission(c1, r.dup), cache |-> r.cache]

\* The request record and the map after the segment that follows the body.
HandleBody(c, cache, t) ==
    LET q == c.req
        cfg == AccountOf(q)
        v == PostVerdict(q, cfg)
    IN  IF v.status # 200
        THEN [c |-> Return([c EXCEPT !.ev = @ \o v.ev \o <<"res.end">>],
                           End(c.res, v.status, "application/json", JsonError(v.error))),
              cache |-> cache]
        ELSE LET msg == parseXmlMessage(v.xml)
                 id == MessageIdOf(msg)
                 r == isMessageProcessed(cache, id, t)
                 c1 == [c EXCEPT !.ev = @ \o v.ev \o <<"isMessageProcessed">>,
                                 !.msg = msg, !.messageId = id,
                                 !.dup = IF r.dup THEN "dup" ELSE "new",
                                 !.tsBefore = TsOf(cache, id),
                                 !.tsAfter = TsOf(r.cache, id)]
             IN  [c |-> AfterAdmission(c1, r.dup), cache |-> r.cache]

\* The ways the download of processMediaMessage can end.  "none": the
\* message has no MediaId and nothing is downloaded.
MediaOutcomes(msg) == IF Field(msg, "MediaId") = "" THEN {"none"} ELSE {"saved", "failed"}

\* getMediaSaveDir (part_001:59-63)
MediaSaveDir == "/tmp/wecom-media"

\* The file name downloadMedia is given, or takes from the response headers
\* (part_001:94-126, part_003:409-430).
MediaFileName(msg) ==
    LET msgType == Field(msg, "MsgType")
        mediaId == Field(msg, "MediaId")
    IN  IF msgType = "voice"
        THEN mediaId \o "." \o (IF Field(msg, "Format") # "" THEN msg["Format"] ELSE "amr")
        ELSE IF msgType = "video" THEN mediaId \o ".mp4"
        ELSE IF msgType = "file"
        THEN (IF Field(msg, "FileName") # "" THEN msg["FileName"] ELSE mediaId \o ".bin")
        ELSE mediaId \o ".jpg"

\* Mutant: a failed download leaves the message without a text.
processMediaMessage_emptyOnFailure(msg, outcome) ==
    LET msgType == Field(msg, "MsgType")
        filePath == MediaSaveDir \o "/" \o MediaFileName(msg)
    IN  IF outcome = "none"
        THEN [text |-> "[" \o msgType \o "] (no media file)", filePath |-> ""]
        ELSE IF outcome = "failed"
        THEN [text |-> "", filePath |-> ""]
        ELSE [text |-> "[" \o msgType \o "] " \o filePath, filePath |-> filePath]

\* processMediaMessage (part_001:72-144): the description and the path it
\* returns.  A download that fails gives a placeholder and no path.
processMediaMessage(msg, outcome) ==
    LET msgType == Field(msg, "MsgType")
        filePath == MediaSaveDir \o "/" \o MediaFileName(msg)
    IN  IF outcome = "none"
        THEN [text |-> "[" \o msgType \o "] (no media file)", filePath |-> ""]
        ELSE IF outcome = "failed"
        THEN [text |-> "[" \o msgType \o "] (download failed)", filePath |-> ""]
        ELSE [text |-> "[" \o msgType \o "] " \o filePath
                       \o (IF msgType = "image" /\ Field(msg, "PicUrl") # ""
                           THEN " link: " \o msg["PicUrl"] ELSE "")
                       \o (IF msgType = "voice"
                           THEN " (format: "
                                \o (IF Field(msg, "Format") # "" THEN msg["Format"] ELSE "amr")
                                \o ")"
                           ELSE ""),
              filePath |-> filePath]

\* downloadMedia up to its first await (part_003:397): getAccessToken answers
\* from the cache, and the media request goes out, or it asks the token
\* endpoint first.
StartDownload(c, cache, t) ==
    IF c.pc = "media" /\ Field(c.msg, "MediaId") # ""
    THEN IF TokenFresh(cache, CacheKey(AccountOf(c.req)), t)
         THEN Called(c, "getAccessToken")
         ELSE [c EXCEPT !.pc = "token", !.ev = @ \o <<"getAccessToken", "gettoken">>]
    ELSE c

\* Lines 718-720 and 772-793, once processMediaMessage has settled.
HandleMedia(c, outcome) ==
    LET m == processMediaMessage(c.msg, outcome)
    IN  Forward([c EXCEPT !.download = outcome], m.text, m.filePath)

(***************************************************************************)
(* Reply delivery: the deliver callback of processInboundMessage           *)
(* (part_001:409-561).  File paths and reply texts are sequences of        *)
(* characters, one string per character; a Chinese character is written as *)
(* its reading between braces.                                             *)
(***************************************************************************)
\* \s of the regular expressions
IsSpace(ch) == ch \in {" ", "\t", "\n"}

\* String.prototype.toLowerCase, over the letters the model's texts use
Lower(ch) ==
    CASE ch = "A" -> "a" [] ch = "B" -> "b" [] ch = "G" -> "g" [] ch = "M" -> "m"
      [] ch = "N" -> "n" [] ch = "P" -> "p" [] ch = "R" -> "r"
      [] OTHER -> ch

LowerSeq(s) == [i \in DOMAIN s |-> Lower(s[i])]

\* Whether `word` stands in `s` at position i.
At(s, i, word) ==
    /\ i >= 1
    /\ i + Len(word) - 1 <= Len(s)
    /\ SubSeq(s, i, i + Len(word) - 1) = word

Contains(s, word) == \E i \in 1..Len(s) : At(s, i, word)

EndsWith(s, word) == At(s, Len(s) - Len(word) + 1, word)

\* String.prototype.trim
Trim(s) ==
    LET inked == {i \in 1..Len(s) : ~IsSpace(s[i])}
    IN  IF inked = {} THEN << >>
        ELSE SubSeq(s, CHOOSE i \in inked : \A j \in inked : i <= j,
                       CHOOSE i \in inked : \A j \in inked : i >= j)

\* filePath.toLowerCase().split(".").pop() || ""
ExtensionOf(filePath) ==
    LET dots == {i \in 1..Len(filePath) : filePath[i] = "."}
        last == IF dots = {} THEN 0 ELSE CHOOSE i \in dots : \A j \in dots : i >= j
    IN  LowerSeq(SubSeq(filePath, last + 1, Len(filePath)))

ImageExts ==
    {<<"j", "p", "g">>, <<"j", "p", "e", "g">>, <<"p", "n", "g">>, <<"g", "i", "f">>,
     <<"w", "e", "b", "p">>, <<"b", "m", "p">>}

VoiceExts ==
    {<<"a", "m", "r">>, <<"m", "p", "3">>, <<"w", "a", "v">>, <<"o", "g", "g">>,
     <<"m", "4", "a">>}

VideoExts ==
    {<<"m", "p", "4">>, <<"m", "o", "v">>, <<"a", "v", "i">>, <<"w", "m", "v">>,
     <<"m", "k", "v">>, <<"f", "l", "v">>}

\* getMediaType (part_001:414-426)
getMediaType(filePath) ==
    LET ext == ExtensionOf(filePath)
    IN  IF ext \in ImageExts THEN "image"
        ELSE IF ext \in VoiceExts THEN "voice"
        ELSE IF ext \in VideoExts THEN "video"
        ELSE "file"

\* Mutant: every voice-class file is uploaded as voice.
UploadTypeOf_voiceAsIs(filePath) == getMediaType(filePath)

\* uploadType (part_001:438-440): voice is uploaded as voice for .amr only
UploadTypeOf(filePath) ==
    IF getMediaType(filePath) = "voice"
       /\ ~EndsWith(LowerSeq(filePath), <<".", "a", "m", "r">>)
    THEN "file"
    ELSE getMediaType(filePath)

\* The alternatives of the regular expression of part_001:523, in its order.
PathExts ==
    << <<"p", "n", "g">>, <<"j", "p", "g">>, <<"j", "p", "e", "g">>, <<"g", "i", "f">>,
       <<"w", "e", "b", "p">>, <<"b", "m", "p">>, <<"m", "p", "4">>, <<"m", "o", "v">>,
       <<"a", "v", "i">>, <<"a", "m", "r">>, <<"m", "p", "3">>, <<"w", "a", "v">>,
       <<"p", "d", "f">>, <<"d", "o", "c">>, <<"d", "o", "c", "x">>, <<"x", "l", "s">>,
       <<"x", "l", "s", "x">>, <<"p", "p", "t">>, <<"p", "p", "t", "x">>,
       <<"z", "i", "p">>, <<"r", "a", "r">> >>

\* The alternatives that match, ignoring case, right after position dot.
ExtsAt(text, dot) ==
    {n \in DOMAIN PathExts : At(LowerSeq(text), dot + 1, PathExts[n])}

\* The positions of a "." at which /[\/\\][^\s]+\.(png|...)/i can match when
\* it starts at position i: at least one character that is not a space comes
\* between, and an alternative follows.
DotsFrom(text, i) ==
    {dot \in (i + 2)..Len(text) :
        /\ text[dot] = "."
        /\ \A j \in (i + 1)..(dot - 1) : ~IsSpace(text[j])
        /\ ExtsAt(text, dot) # {}}

StartsAt(text) ==
    {i \in 1..Len(text) : text[i] \in {"/", "\\"} /\ DotsFrom(text, i) # {}}

NoMatch == [found |-> FALSE, from |-> 0, to |-> 0]

\* replyText.match(...): the leftmost start, from it the longest run of
\* [^\s]+ (the last "." that will do), and there the first alternative.
mediaPathMatch(text) ==
    IF StartsAt(text) = {} THEN NoMatch
    ELSE LET i == CHOOSE a \in StartsAt(text) : \A b \in StartsAt(text) : a <= b
             dot == CHOOSE a \in DotsFrom(text, i) : \A b \in DotsFrom(text, i) : a >= b
             n == CHOOSE a \in ExtsAt(text, dot) : \A b \in ExtsAt(text, dot) : a <= b
         IN  [found |-> TRUE, from |-> i, to |-> dot + Len(PathExts[n])]

\* replyText.replace(mediaPathMatch[0], "").trim()
textWithoutPath(text, m) ==
    Trim(SubSeq(text, 1, m.from - 1) \o SubSeq(text, m.to + 1, Len(text)))

\* The words of the failure patterns.
Sorry == <<"{bao}", "{qian}">>

VerySorry == <<"{hen}">> \o Sorry

SoSorry == <<"{fei}", "{chang}">> \o Sorry

Cannot == <<"{wu}", "{fa}">>

Failure == <<"{shi}", "{bai}">>

Mistake == <<"{cuo}", "{wu4}">>

Missing == <<"{que}", "{shi}">>

Config == <<"{pei}", "{zhi}">>

Incomplete == <<"{bu}", "{wan}", "{zheng}">>

Bug == <<"B", "u", "g">>

CorpIdWord == <<"c", "o", "r", "p", "I", "d">>

\* /wufa|shibai|cuowu|queshi|Bug/ (part_001:532)
MatchesFailure(text) ==
    \E word \in {Cannot, Failure, Mistake, Missing, Bug} : Contains(text, word)

\* /^(baoqian|hen baoqian|feichang baoqian|wufa|shibai|cuowu)/ on the
\* trimmed text (part_001:545)
isErrorMessage(text) ==
    \E word \in {Sorry, VerySorry, SoSorry, Cannot, Failure, Mistake} :
        At(Trim(text), 1, word)

\* `first` and, after it on the same line, `second`: /first.*second/
Then(text, first, second) ==
    \E i, j \in 1..Len(text) :
        /\ At(text, i, first)
        /\ At(text, j, second)
        /\ j >= i + Len(first)
        /\ \A k \in (i + Len(first))..(j - 1) : text[k] # "\n"

\* /corpId|peizhi.*queshi|peizhi.*buwanzheng|Bug/ (part_001:546)
isConfigError(text) ==
    \/ Contains(text, CorpIdWord)
    \/ Then(text, Config, Missing)
    \/ Then(text, Config, Incomplete)
    \/ Contains(text, Bug)

\* A legacy media field of the payload: absent, or an object with a path
\* and a url.
NoRef == [has |-> FALSE, path |-> << >>, url |-> << >>]

Ref(path, url) == [has |-> TRUE, path |-> path, url |-> url]

\* x.path || x.url
PathOf(ref) == IF ref.path # << >> THEN ref.path ELSE ref.url

Payload(mediaUrl, mediaUrls, image, file, video, voice, audio, text, body) ==
    [mediaUrl |-> mediaUrl, mediaUrls |-> mediaUrls, image |-> image, file |-> file,
     video |-> video, voice |-> voice, audio |-> audio, text |-> text, body |-> body]

\* const replyText = payload.text || payload.body || ""
ReplyText(payload) == IF payload.text # << >> THEN payload.text ELSE payload.body

\* The steps of deliver that may send a file, in the order of the code.
Stages == <<"mediaUrl", "mediaUrls", "image", "file", "video", "voice", "text">>

\* The path the text names, by the regular expression of part_001:523.
PathInText(payload) ==
    LET m == mediaPathMatch(ReplyText(payload))
    IN  IF m.found THEN SubSeq(ReplyText(payload), m.from, m.to) ELSE << >>

\* The paths a step hands to sendMediaFile (part_001:472-527): the primary
\* reference and the list whenever present, the image only while nothing was
\* sent, the file, the video and the voice or audio whenever present, and
\* the path found in the text while nothing was sent and if it exists.
StagePaths(payload, stage, mediaSent, disk) ==
    IF stage = "mediaUrl"
    THEN (IF payload.mediaUrl # << >> THEN <<payload.mediaUrl>> ELSE << >>)
    ELSE IF stage = "mediaUrls" THEN payload.mediaUrls
    ELSE IF stage = "image"
    THEN (IF ~mediaSent /\ payload.image.has /\ PathOf(payload.image) # << >>
          THEN <<PathOf(payload.image)>> ELSE << >>)
    ELSE IF stage \in {"file", "video"}
    THEN (IF payload[stage].has /\ PathOf(payload[stage]) # << >>
          THEN <<PathOf(payload[stage])>> ELSE << >>)
    ELSE IF stage = "voice"
    THEN LET ref == IF payload.voice.has THEN payload.voice ELSE payload.audio
         IN  IF ref.has /\ PathOf(ref) # << >> THEN <<PathOf(ref)>> ELSE << >>
    ELSE IF ~mediaSent /\ PathInText(payload) # << >> /\ PathInText(payload) \in disk
    THEN <<PathInText(payload)>>
    ELSE << >>

\* The send function of the switch of part_001:444-462
SendOp(uploadType) ==
    CASE uploadType = "image" -> "sendWeComImage"
      [] uploadType = "voice" -> "sendWeComVoice"
      [] uploadType = "video" -> "sendWeComVideo"
      [] OTHER -> "sendWeComFile"

\* One call of deliver: its position, its locals, and as history the calls
\* of sendMediaFile it made (tries) and the requests it sent (ops).
NoDelivery ==
    [pc |-> "idle", payload |-> Payload(<< >>, << >>, NoRef, NoRef, NoRef, NoRef, NoRef,
                                        << >>, << >>),
     disk |-> {}, at |-> 0, rest |-> << >>, file |-> << >>, mediaSent |-> FALSE,
     tries |-> << >>, ops |-> << >>, result |-> "none"]

Op(name, type, what) == [op |-> name, type |-> type, what |-> what]

Finish(d, result) == [d EXCEPT !.pc = "done", !.result = result]

\* await WeComAPI.sendWeComMessage(accountConfig, senderId, text)
SendText(d, text) ==
    [d EXCEPT !.pc = "message", !.ops = Append(@, Op("sendWeComMessage", "text", text))]

\* Mutant: an apology or a defect report is held back whether or not a file
\* was sent.
FinalText_alwaysFiltered(d) ==
    LET replyText == ReplyText(d.payload)
    IN  IF replyText = << >> THEN Finish(d, "ok")
        ELSE IF isErrorMessage(replyText) \/ isConfigError(replyText)
        THEN Finish(d, "ok")
        ELSE SendText(d, replyText)

\* Mutant: the text is sent after a media send whatever it says.
FinalText_unfiltered(d) ==
    IF ReplyText(d.payload) = << >> THEN Finish(d, "ok")
    ELSE SendText(d, ReplyText(d.payload))

\* The text step (part_001:542-555)
FinalText(d) ==
    LET replyText == ReplyText(d.payload)
    IN  IF replyText = << >> THEN Finish(d, "ok")
        ELSE IF d.mediaSent /\ (isErrorMessage(replyText) \/ isConfigError(replyText))
        THEN Finish(d, "ok")
        ELSE SendText(d, replyText)

\* Mutant: without the return of part_001:536, the text step follows the
\* send of the text without the path.
TextAfterPath_noReturn(d) ==
    LET replyText == ReplyText(d.payload)
        rest == textWithoutPath(replyText, mediaPathMatch(replyText))
    IN  IF rest # << >> /\ ~MatchesFailure(rest)
        THEN FinalText([d EXCEPT !.ops = Append(@, Op("sendWeComMessage", "text", rest))])
        ELSE FinalText(d)

\* part_001:528-536, after the file named in the text was sent
TextAfterPath(d) ==
    LET replyText == ReplyText(d.payload)
        rest == textWithoutPath(replyText, mediaPathMatch(replyText))
    IN  IF rest # << >> /\ ~MatchesFailure(rest)
        THEN SendText(d, rest)
        ELSE Finish(d, "ok")

RECURSIVE Advance(_)

\* Mutant: a failure of one file ends the sending of files.
Returned_stopOnFailure(d, sent) ==
    LET stage == Stages[d.at]
        d1 == [d EXCEPT !.tries = Append(@, [stage |-> stage, path |-> d.file, sent |-> sent]),
                        !.mediaSent = IF stage \in {"mediaUrl", "image"} THEN sent
                                      ELSE (@ \/ sent)]
    IN  IF stage = "text" /\ sent THEN TextAfterPath(d1)
        ELSE IF ~sent THEN FinalText(d1)
        ELSE Advance(d1)

\* sendMediaFile has returned `sent` (part_001:473, 479-480, 488, 496-497,
\* 505-506, 514-515, 527-536).
Returned(d, sent) ==
    LET stage == Stages[d.at]
        d1 == [d EXCEPT !.tries = Append(@, [stage |-> stage, path |-> d.file, sent |-> sent]),
                        !.mediaSent = IF stage \in {"mediaUrl", "image"} THEN sent
                                      ELSE (@ \/ sent)]
    IN  IF stage = "text" /\ sent THEN TextAfterPath(d1) ELSE Advance(d1)

\* sendMediaFile up to its first await (part_001:429-442): a file that does
\* not exist is not sent; otherwise it is uploaded.
StartFile(d, filePath) ==
    LET d1 == [d EXCEPT !.file = filePath]
    IN  IF filePath \notin d.disk
        THEN Returned(d1, FALSE)
        ELSE [d1 EXCEPT !.pc = "upload",
                        !.ops = Append(@, Op("uploadMedia", UploadTypeOf(filePath), filePath))]

\* deliver from the return of a sendMediaFile to its next await or its end.
Advance(d) ==
    IF d.rest # << >>
    THEN StartFile([d EXCEPT !.rest = Tail(@)], Head(d.rest))
    ELSE IF d.at = Len(Stages) THEN FinalText(d)
    ELSE Advance([d EXCEPT !.at = @ + 1,
                           !.rest = StagePaths(d.payload, Stages[d.at + 1], d.mediaSent,
                                               d.disk)])

\* const mediaId = await WeComAPI.uploadMedia(...) has settled.
AfterUpload(d, ok) ==
    IF ok
    THEN [d EXCEPT !.pc = "send",
                   !.ops = Append(@, Op(SendOp(UploadTypeOf(d.file)), UploadTypeOf(d.file),
                                        d.file))]
    ELSE Returned(d, FALSE)

\* await WeComAPI.sendWeCom<Type>(...) has settled.
AfterSend(d, ok) == Returned(d, ok)

\* await WeComAPI.sendWeComMessage(...) has settled: its error is logged and
\* thrown again (part_001:556-560).
AfterMessage(d, ok) == Finish(d, IF ok THEN "ok" ELSE "thrown")

(***************************************************************************)
(* downloadMedia (part_003:391-449).  A header value is the sequence of    *)
(* its parts ("application/json", "; charset=UTF-8"), so that includes()   *)
(* and the exact lookup in extMap tell values apart as the code does.      *)
(***************************************************************************)
\* extMap (part_003:419-427)
extMap ==
    [t \in {"image/jpeg", "image/png", "image/gif", "image/webp", "audio/amr",
            "video/mp4", "application/octet-stream"} |->
        CASE t = "image/jpeg" -> ".jpg"
          [] t = "image/png" -> ".png"
          [] t = "image/gif" -> ".gif"
          [] t = "image/webp" -> ".webp"
          [] t = "audio/amr" -> ".amr"
          [] t = "video/mp4" -> ".mp4"
          [] OTHER -> ".bin"]

\* The response of the media endpoint: its Content-Type header (<< >> when
\* absent), the file name its Content-Disposition header gives ("" when it
\* gives none) and its body.
Response(contentType, disposition, body) ==
    [contentType |-> contentType, disposition |-> disposition, body |-> body]

\* The error envelope of the platform: { errcode, errmsg }.
Envelope(errcode, errmsg) == [kind |-> "envelope", errcode |-> errcode, errmsg |-> errmsg]

\* A body that is no JSON text: response.json() rejects.
Bytes == [kind |-> "bytes", errcode |-> "", errmsg |-> ""]

\* The file system: the directories and the files that exist.
Fs(dirs, files) == [dirs |-> dirs, files |-> files]

\* One call of downloadMedia: pc is the await it is suspended at.
NoDownload ==
    [pc |-> "idle", mediaId |-> "", saveDir |-> "", filename |-> "",
     response |-> Response(<< >>, "", Bytes), fs |-> Fs({}, {}),
     before |-> Fs({}, {}), filePath |-> "", error |-> << >>]

\* new Error(`...: ${result.errcode} ${result.errmsg}`) (part_003:406)
DownloadError(result) == <<"download failed: ", result.errcode, " ", result.errmsg>>

\* The call ends by throwing.
Thrown(d, error) == [d EXCEPT !.pc = "done", !.error = error]

\* part_003:409-430: the name of the file to write.
FinalFilename(d, response) ==
    IF d.filename # "" THEN d.filename
    ELSE IF response.disposition # "" THEN response.disposition
    ELSE d.mediaId \o (IF Len(response.contentType) = 1
                          /\ response.contentType[1] \in DOMAIN extMap
                       THEN extMap[response.contentType[1]]
                       ELSE ".bin")

\* fs.mkdirSync(saveDir, { recursive: true }) when the directory is missing
\* (part_003:437-439)
EnsureDir(fs, saveDir) ==
    IF saveDir \in fs.dirs THEN fs ELSE [fs EXCEPT !.dirs = @ \cup {saveDir}]

\* Mutant: the directory is made before the response is looked at.
AfterFetch_dirFirst(d, response) ==
    IF Contains(response.contentType, <<"application/json">>)
    THEN [d EXCEPT !.pc = "json", !.response = response,
                   !.fs = EnsureDir(d.fs, d.saveDir)]
    ELSE [d EXCEPT !.pc = "buffer", !.response = response,
                   !.fs = EnsureDir(d.fs, d.saveDir),
                   !.filePath = d.saveDir \o "/" \o FinalFilename(d, response)]

\* part_003:403-444: from the response of fetch to the next await, which is
\* response.json() for a JSON response and response.arrayBuffer() otherwise.
AfterFetch(d, response) ==
    IF Contains(response.contentType, <<"application/json">>)
    THEN [d EXCEPT !.pc = "json", !.response = response]
    ELSE [d EXCEPT !.pc = "buffer", !.response = response,
                   !.fs = EnsureDir(d.fs, d.saveDir),
                   !.filePath = d.saveDir \o "/" \o FinalFilename(d, response)]

\* part_003:405-406: response.json() settled; parsed tells if it resolved.
AfterJson(d, parsed) ==
    IF parsed THEN Thrown(d, DownloadError(d.response.body)) ELSE Thrown(d, <<"json">>)

\* part_003:444-448: response.arrayBuffer() settled.
AfterBuffer(d, ok) ==
    IF ok
    THEN [d EXCEPT !.pc = "done", !.fs.files = @ \cup {d.filePath}]
    ELSE Thrown(d, <<"body">>)

\* The responses of the media endpoint that are explored.
JsonType == <<"application/json">>

JsonUtf8Type == <<"application/json", "; charset=UTF-8">>

InvalidMedia == Envelope("40007", "invalid media_id")

ExpiredToken == Envelope("42001", "access_token expired")

Responses ==
    {Response(t, "", e) : t \in {JsonType, JsonUtf8Type}, e \in {InvalidMedia, ExpiredToken, Bytes}}
    \cup {Response(t, n, Bytes) : t \in {<<"image/jpeg">>, <<"audio/amr">>,
                                          <<"image/png", "; q=1">>, << >>},
                                   n \in {"", "a.jpg"}}

\* The calls of downloadMedia that are explored (part_001:94-126).
DownloadCalls ==
    {[mediaId |-> i, filename |-> n] : i \in {"med1"}, n \in {"", "med1.mp4"}}

(***************************************************************************)
(* The requests that are delivered.                                        *)
(***************************************************************************)
\* length of the strings passed to validateSignature and of the short
\* messages that are encrypted
MaxLen == 2

\* requests explored by Spec, which delivers every kind of request
MaxReqs == 1

\* deliveries explored by SpecRetry, which retries a few messages over time
MaxDeliveries == 2

\* clock advances explored by SpecRetry
MaxRetryTicks == 1

\* Between retried deliveries the clock advances by one millisecond, or by
\* more than the TTL.
RetryDeltas == {1, MSG_ID_CACHE_TTL + 1}

\* callers of getAccessToken explored by SpecToken
MaxCallers == 1

\* getAccessToken calls explored by SpecToken
MaxEntries == 2

\* clock advances explored by SpecToken
MaxTokenTicks == 2

\* callers of the outbound entry points explored by SpecOutbound
MaxSenders == 1

\* calls into the outbound entry points explored by SpecOutbound
MaxSends == 2

\* concurrent callers of getAccessToken explored by SpecRace
MaxRacers == 2

\* getAccessToken calls explored by SpecRace
MaxRaceEntries == 3

\* structured media fields present at once in the payloads of SpecDeliver
MaxFields == 2

\* The clock of SpecToken advances by one millisecond or to one millisecond
\* short of the lifetime of a two-hour token, (7200 - 120) * 1000 ms.
TokenTickDeltas == {1, (7200 - 120) * 1000 - 1}

Callers == DOMAIN tcall

Reqs == DOMAIN conn

Timestamp == <<5>>

Nonce == <<6>>

BadSignature == <<0>>

\* msg_signature as the platform computes it
Sign(account, payload) ==
    Sha1Hex(Join(SortStrings(<<resolveAccountConfig(account).token, Timestamp, Nonce, payload>>)))

NameOf(account) == IF account = "" THEN DEFAULT_ACCOUNT ELSE account

\* GET <prefix>?msg_signature&timestamp&nonce&echostr[&account]
GoodGet(account, c) ==
    [pathname |-> WebhookPrefix, method |-> "GET", account |-> account,
     signature |-> Sign(NameOf(account), <<c>>), timestamp |-> Timestamp,
     nonce |-> Nonce, echostr |-> <<c>>, hasEncrypt |-> FALSE, encrypt |-> << >>]

\* POST <prefix>?msg_signature&timestamp&nonce[&account] with an <Encrypt> body
GoodPost(account, c) ==
    [pathname |-> WebhookPrefix, method |-> "POST", account |-> account,
     signature |-> Sign(NameOf(account), <<c>>), timestamp |-> Timestamp,
     nonce |-> Nonce, echostr |-> << >>, hasEncrypt |-> TRUE, encrypt |-> <<c>>]

NoEncrypt(q) == [q EXCEPT !.hasEncrypt = FALSE, !.encrypt = << >>]

GetRequests ==
    {GoodGet("", c) : c \in 1..3}
    \cup {[GoodGet("", c) EXCEPT !.signature = BadSignature] : c \in 1..2}
    \cup {[GoodGet("", 1) EXCEPT ![f] = << >>] :
            f \in {"signature", "timestamp", "nonce", "echostr"}}
    \cup {[GoodGet("", 1) EXCEPT !.echostr = << >>, !.signature = BadSignature]}

PostRequests ==
    {GoodPost("", c) : c \in 2..18}
    \cup {GoodPost("second", 19), GoodPost("", 19)}
    \cup {[GoodPost("", 4) EXCEPT ![f] = << >>] : f \in {"signature", "timestamp", "nonce"}}
    \cup {NoEncrypt(GoodPost("", 4)), NoEncrypt([GoodPost("", 4) EXCEPT !.nonce = << >>])}
    \cup {[GoodPost("", c) EXCEPT !.signature = BadSignature] : c \in {2, 4}}
    \cup {[GoodPost("", 4) EXCEPT !.signature = Sign(DEFAULT_ACCOUNT, <<6>>)]}

OtherRequests ==
    {[GoodPost("", 4) EXCEPT !.method = "PUT"],
     [GoodPost("off", 4) EXCEPT !.method = "PUT"],
     GoodGet("off", 1), GoodPost("nocorp", 4), GoodPost("ghost", 4),
     [GoodPost("", 4) EXCEPT !.pathname = <<"/other">>],
     [GoodPost("", 6) EXCEPT !.pathname = WebhookPrefix \o <<"/x">>]}

\* Every kind of request the handler tells apart.
Requests == GetRequests \cup PostRequests \cup OtherRequests

\* Retried deliveries: a text and an image message with one MsgId.
Deliveries == {GoodPost("", c) : c \in {4, 7}}

\* The files of the reply payloads: /o.png, /v.mp3, /v.AMR, /m.mp4, /d.pdf
\* and /d.docx exist, /x.png does not.
Png == <<"/", "o", ".", "p", "n", "g">>

Mp3 == <<"/", "v", ".", "m", "p", "3">>

Amr == <<"/", "v", ".", "A", "M", "R">>

Mp4 == <<"/", "m", ".", "m", "p", "4">>

Pdf == <<"/", "d", ".", "p", "d", "f">>

Docx == <<"/", "d", ".", "d", "o", "c", "x">>

Gone == <<"/", "x", ".", "p", "n", "g">>

Disk == {Png, Mp3, Amr, Mp4, Pdf, Docx}

Caption == <<"h", "i">>

\* The reply texts: none, a caption, an apology, a failure named inside the
\* text, a configuration defect, and texts that name a file, with a
\* caption, after an apology, with a failure, alone, with a .docx
\* extension, and one that does not exist.
ReplyTexts ==
    {<< >>, Caption, Sorry, <<"x">> \o Failure, Config \o <<"x">> \o Missing,
     Png \o <<" ">> \o Caption, Sorry \o <<" ">> \o Png,
     Png \o <<" ", "x">> \o Failure, Png, Docx \o <<" ">> \o Caption,
     Gone \o <<" ">> \o Caption}

\* The structured fields of a payload that are present.
FieldsOf(p) ==
    {f \in {"mediaUrl", "mediaUrls"} : p[f] # << >>}
    \cup {f \in {"image", "file", "video", "voice", "audio"} : p[f].has}

AllPayloads ==
    {Payload(mediaUrl, mediaUrls, image, file, video, sound[1], sound[2], text, << >>) :
        mediaUrl \in {<< >>, Png, Gone},
        mediaUrls \in {<< >>, <<Gone, Mp3, Mp4, Png>>},
        image \in {NoRef, Ref(Png, << >>)},
        file \in {NoRef, Ref(<< >>, Pdf)},
        video \in {NoRef, Ref(Mp4, << >>)},
        sound \in {<<NoRef, NoRef>>, <<Ref(Amr, << >>), NoRef>>, <<Ref(Mp3, << >>), NoRef>>,
                   <<NoRef, Ref(Mp3, << >>)>>},
        text \in ReplyTexts}

\* The reply payloads delivered: every text with at most one structured
\* field, every choice of at most MaxFields structured fields with a caption
\* or without a text, and a payload whose text is in body.
Payloads ==
    {p \in AllPayloads :
        \/ Cardinality(FieldsOf(p)) <= 1
        \/ Cardinality(FieldsOf(p)) <= MaxFields /\ p.text \in {<< >>, Caption}}
    \cup {Payload(<< >>, << >>, NoRef, NoRef, NoRef, NoRef, NoRef, << >>, Caption)}

(***************************************************************************)
(* Initial states and the clock.                                           *)
(***************************************************************************)
InitWith(sizes, slots, callers) ==
    /\ now = 0
    /\ ticks = 0
    /\ \E k \in sizes :
          /\ processedMsgIds = Prefilled(k)
          /\ fresh = k
    /\ lastCall = NoCall
    /\ admitted = << >>
    /\ calls = 0
    /\ conn = [r \in 1..slots |-> Idle]
    /\ tokenCache = << >>
    /\ tokenLog = << >>
    /\ issued = 0
    /\ entries = 0
    /\ cleared = NoClear
    /\ tcall = [c \in 1..callers |-> NoCaller]
    /\ dlv = NoDelivery
    /\ dl = NoDownload
    /\ crypto = NoCryptoCall

\* Date.now() moves on.
Tick(limit) ==
    /\ ticks < limit
    /\ \E d \in TickDeltas : now' = now + d
    /\ ticks' = ticks + 1
    /\ UNCHANGED <<processedMsgIds, lastCall, admitted, fresh, calls, conn>>
    /\ UNCHANGED tokenVars
    /\ UNCHANGED outVars

\* Date.now() moves on between retried deliveries.
RetryTick ==
    /\ ticks < MaxRetryTicks
    /\ \E d \in RetryDeltas : now' = now + d
    /\ ticks' = ticks + 1
    /\ UNCHANGED <<processedMsgIds, lastCall, admitted, fresh, calls, conn>>
    /\ UNCHANGED tokenVars
    /\ UNCHANGED outVars

\* One call isMessageProcessed(msgId) at the current time, for a tracked
\* identifier or for the next unused filler identifier.
CallIsMessageProcessed ==
    /\ calls < MaxCalls
    /\ \E msgId \in TrackedIds \cup {Filler(fresh + 1)} :
          LET r == isMessageProcessed(processedMsgIds, msgId, now)
          IN  /\ processedMsgIds' = r.cache
              /\ lastCall' = CallRecord(processedMsgIds, admitted, msgId, now, r)
              /\ admitted' = IF msgId \in TrackedIds
                             THEN Admit(admitted, msgId, now, r)
                             ELSE admitted
              /\ fresh' = IF msgId \in TrackedIds THEN fresh ELSE fresh + 1
    /\ calls' = calls + 1
    /\ UNCHANGED <<now, ticks, conn>>
    /\ UNCHANGED tokenVars
    /\ UNCHANGED outVars

(***************************************************************************)
(* The steps of handleWeComWebhook: one per segment between its awaits.    *)
(***************************************************************************)
\* A request from `universe` arrives and the handler runs to its first
\* await or to its return.  Requests take the slots in order.
Arrive(r, universe) ==
    /\ conn[r].pc = "idle"
    /\ IF r = 1 THEN TRUE ELSE conn[r - 1].pc # "idle"
    /\ \E q \in universe : conn' = [conn EXCEPT ![r] = HandleStart(q)]
    /\ UNCHANGED dedupVars
    /\ UNCHANGED tokenVars
    /\ UNCHANGED outVars

\* await WeComAPI.readRequestBody(req) resolves.
BodyRead(r) ==
    /\ conn[r].pc = "body"
    /\ LET o == HandleBody(conn[r], processedMsgIds, now)
           id == o.c.messageId
           called == o.c.dup # "none"
           result == [dup |-> o.c.dup = "dup"]
           c == StartDownload(o.c, tokenCache, now)
       IN  /\ conn' = [conn EXCEPT ![r] = c]
           /\ processedMsgIds' = o.cache
           /\ lastCall' = IF called
                          THEN CallRecord(processedMsgIds, admitted, id, now, result)
                          ELSE lastCall
           /\ admitted' = IF called THEN Admit(admitted, id, now, result) ELSE admitted
           /\ cleared' = IF c # o.c
                          THEN Asked(cleared, CacheKey(AccountOf(c.req)))
                          ELSE cleared
    /\ UNCHANGED <<now, ticks, fresh, calls>>
    /\ UNCHANGED <<tokenCache, tokenLog, issued, entries, tcall>>
    /\ UNCHANGED outVars

\* await WeComAPI.readRequestBody(req) rejects (req "error"): the handler's
\* promise rejects and nothing is written to the response.
BodyError(r) ==
    /\ conn[r].pc = "body"
    /\ conn' = [conn EXCEPT ![r].pc = "threw"]
    /\ UNCHANGED dedupVars
    /\ UNCHANGED tokenVars
    /\ UNCHANGED outVars

\* The token endpoint answers the getAccessToken of the download: the token
\* is stored and the media request goes out, or getAccessToken throws and
\* processMediaMessage returns its placeholder (part_001:136-143).
DownloadTokenSettled(r) ==
    /\ conn[r].pc = "token"
    /\ \E reply \in DownloadReplies :
          LET key == CacheKey(AccountOf(conn[r].req))
              s == TokenSettle(tokenCache, key, reply, issued + 1, now)
          IN  /\ tokenCache' = s.cache
              /\ IF s.ok
                 THEN /\ tokenLog' = LogStore(tokenLog, key, reply, issued + 1, now)
                      /\ issued' = issued + 1
                      /\ cleared' = Stored(cleared, key)
                      /\ conn' = [conn EXCEPT ![r].pc = "media"]
                 ELSE /\ conn' = [conn EXCEPT ![r] = HandleMedia(conn[r], "failed")]
                      /\ UNCHANGED <<tokenLog, issued, cleared>>
    /\ UNCHANGED dedupVars
    /\ UNCHANGED <<entries, tcall>>
    /\ UNCHANGED outVars

\* await processMediaMessage(...) resolves.
MediaSettled(r) ==
    /\ conn[r].pc = "media"
    /\ \E outcome \in MediaOutcomes(conn[r].msg) :
          conn' = [conn EXCEPT ![r] = HandleMedia(conn[r], outcome)]
    /\ UNCHANGED dedupVars
    /\ UNCHANGED tokenVars
    /\ UNCHANGED outVars

\* Mutant: a failed task takes the identifier of its message out of the map.
TaskSettled_forget(r) ==
    /\ conn[r].task = "running"
    /\ \E outcome \in {"ok", "failed"} :
          /\ conn' = [conn EXCEPT ![r].task = outcome]
          /\ processedMsgIds' =
                IF outcome = "failed"
                THEN [id \in DOMAIN processedMsgIds \ {conn[r].messageId}
                          |-> processedMsgIds[id]]
                ELSE processedMsgIds
    /\ UNCHANGED <<now, ticks, lastCall, admitted, fresh, calls>>
    /\ UNCHANGED tokenVars
    /\ UNCHANGED outVars

\* Mutant: the rejection of processInboundMessage is not caught.
TaskSettled_uncaught(r) ==
    /\ conn[r].task = "running"
    /\ \E outcome \in {"ok", "failed"} :
          conn' = [conn EXCEPT ![r].task = outcome,
                               ![r].pc = IF outcome = "failed" THEN "threw" ELSE @]
    /\ UNCHANGED dedupVars
    /\ UNCHANGED tokenVars
    /\ UNCHANGED outVars

\* The promise of processInboundMessage settles; a rejection is logged by
\* the .catch of part_001:787-791.
TaskSettled(r) ==
    /\ conn[r].task = "running"
    /\ \E outcome \in {"ok", "failed"} : conn' = [conn EXCEPT ![r].task = outcome]
    /\ UNCHANGED dedupVars
    /\ UNCHANGED tokenVars
    /\ UNCHANGED outVars

(***************************************************************************)
(* Specifications.                                                         *)
(***************************************************************************)
\* The webhook handler under every kind of request.
Init == InitWith({0}, MaxReqs, 0)

Next ==
    \E r \in Reqs :
        \/ Arrive(r, Requests)
        \/ BodyRead(r)
        \/ BodyError(r)
        \/ DownloadTokenSettled(r)
        \/ MediaSettled(r)
        \/ TaskSettled(r)

Spec == Init /\ [][Next]_vars

\* The handler when every operation it awaits before it responds settles:
\* the reading of the body ends or fails, the token endpoint and the media
\* endpoint answer or fail.
Fairness ==
    /\ WF_vars(\E r \in Reqs : BodyError(r) \/ BodyRead(r))
    /\ WF_vars(\E r \in Reqs : DownloadTokenSettled(r))
    /\ WF_vars(\E r \in Reqs : MediaSettled(r))

SpecLive == Init /\ [][Next]_vars /\ Fairness

\* Deliveries of one message identifier to two accounts: a text message to
\* the default account and to the second one, and an image message.
CrossDeliveries == {GoodPost("", 4), GoodPost("second", 19), GoodPost("", 7)}

InitAccounts == InitWith({0}, MaxDeliveries, 0)

NextAccounts ==
    \E r \in Reqs :
        \/ Arrive(r, CrossDeliveries)
        \/ BodyRead(r)
        \/ BodyError(r)
        \/ DownloadTokenSettled(r)
        \/ MediaSettled(r)
        \/ TaskSettled(r)

SpecAccounts == InitAccounts /\ [][NextAccounts]_vars

\* Retried deliveries over time, starting from a map at the sweep threshold.
InitRetry == InitWith({MSG_ID_CACHE_MAX_SIZE \div 2}, MaxDeliveries, 0)

NextRetry ==
    \/ RetryTick
    \/ \E r \in Reqs :
        \/ Arrive(r, Deliveries)
        \/ BodyRead(r)
        \/ BodyError(r)
        \/ DownloadTokenSettled(r)
        \/ MediaSettled(r)
        \/ TaskSettled(r)

SpecRetry == InitRetry /\ [][NextRetry]_vars

(***************************************************************************)
(* The steps of the callers of the platform API.                           *)
(***************************************************************************)
TokenTick ==
    /\ ticks < MaxTokenTicks
    /\ \E d \in TokenTickDeltas : now' = now + d
    /\ ticks' = ticks + 1
    /\ UNCHANGED <<processedMsgIds, lastCall, admitted, fresh, calls, conn>>
    /\ UNCHANGED tokenVars
    /\ UNCHANGED outVars

\* An entry point is called, with a call from `universe`, and runs to its
\* first await or to its return.  Callers take the slots in order.
Enter(c, universe, limit) ==
    /\ tcall[c].pc \in {"idle", "done"}
    /\ IF c = 1 THEN TRUE ELSE tcall[c - 1].pc # "idle"
    /\ entries < limit
    /\ \E e \in universe :
          tcall' = [tcall EXCEPT ![c] = Begin(e, tokenCache, tokenLog, now)]
    /\ cleared' = IF tcall'[c].at # NoTime
                   THEN Asked(cleared, CacheKey(tcall'[c].cfg))
                   ELSE cleared
    /\ entries' = entries + 1
    /\ UNCHANGED dedupVars
    /\ UNCHANGED <<conn, tokenCache, tokenLog, issued>>
    /\ UNCHANGED outVars

\* The token endpoint answers a caller's getAccessToken.
TokenSettled(c) ==
    /\ tcall[c].pc = "token"
    /\ \E reply \in TokenReplies :
          LET key == CacheKey(tcall[c].cfg)
              s == TokenSettle(tokenCache, key, reply, issued + 1, now)
          IN  /\ tokenCache' = s.cache
              /\ IF s.ok
                 THEN /\ tokenLog' = LogStore(tokenLog, key, reply, issued + 1, now)
                      /\ issued' = issued + 1
                      /\ cleared' = Stored(cleared, key)
                      /\ tcall' = [tcall EXCEPT ![c] = WithToken([@ EXCEPT !.token = s.token])]
                 ELSE /\ tcall' = [tcall EXCEPT ![c] = Done(@, "error", s.error)]
                      /\ UNCHANGED <<tokenLog, issued, cleared>>
    /\ UNCHANGED dedupVars
    /\ UNCHANGED <<conn, entries>>
    /\ UNCHANGED outVars

\* The platform answers the request of a caller's operation; the caller goes
\* on to its next operation, which begins with getAccessToken.
ApiSettled(c) ==
    /\ tcall[c].pc = "api"
    /\ \E ok \in BOOLEAN :
          tcall' = [tcall EXCEPT ![c] = AfterApi(tcall[c], ok, tokenCache, tokenLog, now)]
    /\ cleared' = IF tcall'[c].pc # "done"
                   THEN Asked(cleared, CacheKey(tcall'[c].cfg))
                   ELSE cleared
    /\ UNCHANGED dedupVars
    /\ UNCHANGED <<conn, tokenCache, tokenLog, issued, entries>>
    /\ UNCHANGED outVars

\* Mutant: the clear removes the entry of one key only.
ClearTokenCache_oneKey ==
    /\ tokenCache # << >>
    /\ \E key \in DOMAIN tokenCache :
          /\ tokenCache' = [k \in DOMAIN tokenCache \ {key} |-> tokenCache[k]]
          /\ tokenLog' = [k \in DOMAIN tokenLog \ {key} |-> tokenLog[k]]
    /\ cleared' = [NoClear EXCEPT !.on = TRUE]
    /\ UNCHANGED dedupVars
    /\ UNCHANGED <<conn, issued, entries, tcall>>
    /\ UNCHANGED outVars

\* gateway.stop (part_001:975-977): clearTokenCache(), at any time; a clear
\* of an empty cache that was just cleared changes nothing.
ClearTokenCache ==
    /\ tokenCache # << >> \/ cleared # [NoClear EXCEPT !.on = TRUE]
    /\ tokenCache' = << >>
    /\ tokenLog' = << >>
    /\ cleared' = [NoClear EXCEPT !.on = TRUE]
    /\ UNCHANGED dedupVars
    /\ UNCHANGED <<conn, issued, entries, tcall>>
    /\ UNCHANGED outVars

(***************************************************************************)
(* The steps of deliver.                                                   *)
(***************************************************************************)
\* The reply dispatcher calls deliver(payload), which runs to its first
\* await or to its end.
Deliver ==
    /\ dlv.pc = "idle"
    /\ \E p \in Payloads :
          dlv' = Advance([NoDelivery EXCEPT !.payload = p, !.disk = Disk])
    /\ UNCHANGED dedupVars
    /\ UNCHANGED <<conn, dl, crypto>>
    /\ UNCHANGED tokenVars

\* A function of the platform API that deliver awaits settles: it got its
\* token from the cache or from the token endpoint (part_003:165, 236, 267,
\* 298, 329, 362), sent its request, and resolves or rejects.
Settles(pc, After(_, _)) ==
    /\ dlv.pc = pc
    /\ LET key == CacheKey(resolveAccountConfig(DEFAULT_ACCOUNT))
       IN  /\ IF TokenFresh(tokenCache, key, now)
              THEN /\ \E ok \in BOOLEAN : dlv' = After(dlv, ok)
                   /\ UNCHANGED <<tokenCache, tokenLog, issued>>
              ELSE \E reply \in DownloadReplies :
                      LET s == TokenSettle(tokenCache, key, reply, issued + 1, now)
                      IN  /\ tokenCache' = s.cache
                          /\ IF s.ok
                             THEN /\ tokenLog' = LogStore(tokenLog, key, reply, issued + 1, now)
                                  /\ issued' = issued + 1
                                  /\ \E ok \in BOOLEAN : dlv' = After(dlv, ok)
                             ELSE /\ dlv' = After(dlv, FALSE)
                                  /\ UNCHANGED <<tokenLog, issued>>
           /\ cleared' = Asked(cleared, key)
    /\ UNCHANGED dedupVars
    /\ UNCHANGED <<conn, entries, tcall, dl, crypto>>

UploadSettled == Settles("upload", AfterUpload)

SendSettled == Settles("send", AfterSend)

MessageSettled == Settles("message", AfterMessage)

\* deliver has settled; the dispatcher goes on to its next payload
\* (part_001:405-567).
DeliverSettled ==
    /\ dlv.pc = "done"
    /\ dlv' = NoDelivery
    /\ UNCHANGED dedupVars
    /\ UNCHANGED <<conn, dl, crypto>>
    /\ UNCHANGED tokenVars

\* getAccessToken called directly, over time, and gateway.stop.
InitToken == InitWith({0}, MaxReqs, MaxCallers)

NextToken ==
    \/ TokenTick
    \/ ClearTokenCache
    \/ \E c \in Callers :
        \/ Enter(c, TokenCalls, MaxEntries)
        \/ TokenSettled(c)

SpecToken == InitToken /\ [][NextToken]_vars

\* Several callers of getAccessToken at once: each call runs to its await,
\* and the replies of the token endpoint arrive in any order.
InitRace == InitWith({0}, MaxReqs, MaxRacers)

NextRace ==
    \E c \in Callers :
        \/ Enter(c, TokenCalls, MaxRaceEntries)
        \/ TokenSettled(c)

SpecRace == InitRace /\ [][NextRace]_vars

\* The outbound entry points of the plugin.
InitOutbound == InitWith({0}, MaxReqs, MaxSenders)

NextOutbound ==
    \E c \in Callers :
        \/ Enter(c, OutboundCalls, MaxSends)
        \/ TokenSettled(c)
        \/ ApiSettled(c)

SpecOutbound == InitOutbound /\ [][NextOutbound]_vars

\* Reply payloads delivered one after the other.
InitDeliver == InitWith({0}, MaxReqs, 0)

NextDeliver ==
    \/ Deliver
    \/ UploadSettled
    \/ SendSettled
    \/ MessageSettled
    \/ DeliverSettled

SpecDeliver == InitDeliver /\ [][NextDeliver]_vars

\* isMessageProcessed alone, called directly.
InitDedup == InitWith(PrefillSizes, MaxReqs, 0)

NextDedup == Tick(MaxTicks) \/ CallIsMessageProcessed

SpecDedup == InitDedup /\ [][NextDedup]_vars

(***************************************************************************)
(* The steps of downloadMedia.                                             *)
(***************************************************************************)
\* downloadMedia is called (part_001:94-126) and runs to its awaits of
\* getAccessToken and fetch (part_003:397-400).
DownloadMedia ==
    /\ dl.pc = "idle"
    /\ \E call \in DownloadCalls :
          dl' = [NoDownload EXCEPT !.pc = "fetch", !.mediaId = call.mediaId,
                                   !.saveDir = MediaSaveDir,
                                   !.filename = call.filename,
                                   !.fs = dl.fs, !.before = dl.fs]
    /\ UNCHANGED dedupVars
    /\ UNCHANGED <<conn, dlv, crypto>>
    /\ UNCHANGED tokenVars

\* getAccessToken answered, from the cache or from the token endpoint, and
\* the media endpoint answered or the fetch was rejected (part_003:397-400).
FetchSettled ==
    /\ dl.pc = "fetch"
    /\ LET key == CacheKey(resolveAccountConfig(DEFAULT_ACCOUNT))
           fetched(d) == \/ \E response \in Responses : dl' = AfterFetch(d, response)
                         \/ dl' = Thrown(d, <<"fetch">>)
       IN  /\ IF TokenFresh(tokenCache, key, now)
              THEN /\ fetched(dl)
                   /\ UNCHANGED <<tokenCache, tokenLog, issued>>
              ELSE \E reply \in DownloadReplies :
                      LET s == TokenSettle(tokenCache, key, reply, issued + 1, now)
                      IN  /\ tokenCache' = s.cache
                          /\ IF s.ok
                             THEN /\ tokenLog' = LogStore(tokenLog, key, reply, issued + 1, now)
                                  /\ issued' = issued + 1
                                  /\ fetched(dl)
                             ELSE /\ dl' = Thrown(dl, <<"token">>)
                                  /\ UNCHANGED <<tokenLog, issued>>
           /\ cleared' = Asked(cleared, key)
    /\ UNCHANGED dedupVars
    /\ UNCHANGED <<conn, entries, tcall, dlv, crypto>>

\* response.json() settled (part_003:405): it resolves with the envelope,
\* or rejects when the body is no JSON text.
JsonSettled ==
    /\ dl.pc = "json"
    /\ dl' = AfterJson(dl, dl.response.body.kind = "envelope")
    /\ UNCHANGED dedupVars
    /\ UNCHANGED <<conn, dlv, crypto>>
    /\ UNCHANGED tokenVars

\* response.arrayBuffer() settled (part_003:444).
BufferSettled ==
    /\ dl.pc = "buffer"
    /\ \E ok \in BOOLEAN : dl' = AfterBuffer(dl, ok)
    /\ UNCHANGED dedupVars
    /\ UNCHANGED <<conn, dlv, crypto>>
    /\ UNCHANGED tokenVars

\* downloadMedia has settled; the files it wrote stay.
DownloadSettled ==
    /\ dl.pc = "done"
    /\ dl' = [NoDownload EXCEPT !.fs = dl.fs]
    /\ UNCHANGED dedupVars
    /\ UNCHANGED <<conn, dlv, crypto>>
    /\ UNCHANGED tokenVars

\* Media downloaded one after the other into one directory.
InitDownload == InitWith({0}, MaxReqs, 0)

NextDownload ==
    \/ DownloadMedia
    \/ FetchSettled
    \/ JsonSettled
    \/ BufferSettled
    \/ DownloadSettled

SpecDownload == InitDownload /\ [][NextDownload]_vars

(***************************************************************************)
(* The helpers called directly.                                            *)
(***************************************************************************)
RECURSIVE StringsUpTo(_, _)
\* The strings over an alphabet of length at most n.
StringsUpTo(alphabet, n) ==
    IF n = 0 THEN {<< >>}
    ELSE LET shorter == StringsUpTo(alphabet, n - 1)
         IN  shorter \cup {Append(s, ch) : s \in shorter, ch \in alphabet}

\* The strings that are signed: over two characters.
SignedStrings == StringsUpTo({1, 2}, MaxLen)

\* The shared secrets tried.
Secrets == {<<1>>, <<2, 1>>}

\* The messages that are encrypted: short ones of one-byte and two-byte
\* characters ("A", U+00E9), and ones that fill the last block of 32 bytes
\* or begin the next.
Messages == StringsUpTo({65, 233}, MaxLen) \cup {Repeat(65, n) : n \in 9..12}

CorpIds == {<< >>, <<67>>, <<67, 68>>}

AesKeys == {"key1", "key2"}

Randoms == {Repeat(7, 16), Repeat(200, 16)}

\* validateSignature is called with a signature made over the sorted
\* strings, over the strings as passed, or over nothing.
CallValidateSignature ==
    /\ crypto.fn = ""
    /\ \E token \in Secrets, timestamp \in SignedStrings, nonce \in SignedStrings,
          encrypt \in SignedStrings :
          \E signature \in {Sha1Hex(Join(SortStrings(<<token, timestamp, nonce, encrypt>>))),
                            Sha1Hex(Join(<<token, timestamp, nonce, encrypt>>)),
                            Sha1Hex(<< >>)} :
             crypto' = [fn |-> "validateSignature",
                        args |-> <<token, timestamp, nonce, encrypt, signature>>,
                        result |-> validateSignature(token, timestamp, nonce, encrypt, signature)]
    /\ UNCHANGED dedupVars
    /\ UNCHANGED <<conn, dlv, dl>>
    /\ UNCHANGED tokenVars

\* decryptMessage is called on what the platform encrypted.
CallDecryptMessage ==
    /\ crypto.fn = ""
    /\ \E key \in AesKeys, encodingAesKey \in AesKeys, random \in Randoms,
          m \in Messages, sender \in CorpIds, corpId \in CorpIds :
          crypto' = [fn |-> "decryptMessage",
                     args |-> [encodingAesKey |-> encodingAesKey, corpId |-> corpId,
                               key |-> key, m |-> m, sender |-> sender],
                     result |-> decryptMessageBytes(encodingAesKey, corpId,
                                                    Encrypt(key, random, m, sender))]
    /\ UNCHANGED dedupVars
    /\ UNCHANGED <<conn, dlv, dl>>
    /\ UNCHANGED tokenVars

\* The parsed messages whose identifiers are compared: events of one type,
\* with and without MsgId, Event and EventKey, and with field values that
\* hold the "_" of the template of part_001:683.
IdMessages ==
    {[n \in {"MsgType", "CreateTime", "FromUserName"}
            \cup (IF id = "absent" THEN {} ELSE {"MsgId"})
            \cup (IF event = "absent" THEN {} ELSE {"Event"})
            \cup (IF key = "absent" THEN {} ELSE {"EventKey"}) |->
        CASE n = "MsgType" -> "event"
          [] n = "CreateTime" -> time
          [] n = "FromUserName" -> from
          [] n = "MsgId" -> id
          [] n = "Event" -> event
          [] OTHER -> key] :
     id \in {"absent", "", "m1"}, event \in {"absent", "", "click", "click_100"},
     time \in {"100", "u"}, from \in {"u", "u_1", "1"}, key \in {"absent", "k"}}

\* The identifiers of two deliveries are computed (part_001:683).
ComputeMessageIds ==
    /\ crypto.fn = ""
    /\ \E a \in IdMessages, b \in IdMessages :
          crypto' = [fn |-> "messageId", args |-> <<a, b>>,
                     result |-> <<MessageIdOf(a), MessageIdOf(b)>>]
    /\ UNCHANGED dedupVars
    /\ UNCHANGED <<conn, dlv, dl>>
    /\ UNCHANGED tokenVars

\* The caller has its result and may call again.
CallReturned ==
    /\ crypto.fn # ""
    /\ crypto' = NoCryptoCall
    /\ UNCHANGED dedupVars
    /\ UNCHANGED <<conn, dlv, dl>>
    /\ UNCHANGED tokenVars

InitCrypto == InitWith({0}, MaxReqs, 0)

NextCrypto ==
    \/ CallValidateSignature
    \/ CallDecryptMessage
    \/ ComputeMessageIds
    \/ CallReturned

SpecCrypto == InitCrypto /\ [][NextCrypto]_vars

(***************************************************************************)
(* Properties of the webhook handler.                                      *)
(***************************************************************************)
\* The position of the first occurrence of a call in a request's record of
\* calls; 0 when it was not made.
FirstAt(ev, name) ==
    IF \E i \in DOMAIN ev : ev[i] = name
    THEN CHOOSE i \in DOMAIN ev : ev[i] = name /\ \A j \in DOMAIN ev : ev[j] = name => i <= j
    ELSE 0

Made(c, name) == FirstAt(c.ev, name) # 0

Ended(c) == c.res.ended > 0

Acknowledged(c) ==
    /\ c.res.ended = 1
    /\ c.res.statusCode = 200
    /\ c.res.contentType = "text/plain"
    /\ c.res.body = Text("success")

\* processInboundMessage was started for the request.
Launched(c) == c.task # "none"

\* C1: for every delivery that is forwarded downstream, the response is
\* ended before the media download and before processInboundMessage start.
C1_AckBeforeDownstream ==
    \A r \in Reqs :
        Launched(conn[r]) =>
            \A i \in DOMAIN conn[r].ev :
                conn[r].ev[i] \in {"downloadMedia", "processInboundMessage"}
                => /\ Made(conn[r], "res.end")
                   /\ FirstAt(conn[r].ev, "res.end") < i

\* The entry of the request's identifier was in the map when the request
\* was checked, and the check left it there.
EntryWasHeld(c) == c.tsBefore # NoTime /\ c.tsAfter = c.tsBefore

\* C2: a delivery that finds the entry of its identifier in the map is
\* answered 200 "success" with no download and no processInboundMessage,
\* and of the deliveries that saw one and the same entry of an identifier
\* at most one started processInboundMessage.
C2_AtMostOnce ==
    /\ \A r \in Reqs :
          EntryWasHeld(conn[r]) =>
              /\ conn[r].pc = "returned"
              /\ Acknowledged(conn[r])
              /\ ~Launched(conn[r])
              /\ ~Made(conn[r], "downloadMedia")
              /\ ~Made(conn[r], "processInboundMessage")
    /\ \A r1, r2 \in Reqs :
          (/\ r1 # r2
           /\ Made(conn[r1], "isMessageProcessed")
           /\ Made(conn[r2], "isMessageProcessed")
           /\ conn[r1].messageId = conn[r2].messageId
           /\ conn[r1].tsAfter = conn[r2].tsAfter)
          => /\ ~(Launched(conn[r1]) /\ Launched(conn[r2]))
             /\ ~(Made(conn[r1], "downloadMedia") /\ Made(conn[r2], "downloadMedia"))

\* One delivery was forwarded and a later one with its identifier found the
\* entry and was answered, after the clock had moved on.
C2_Witness ==
    \E r1, r2 \in Reqs :
        /\ r1 # r2
        /\ conn[r1].messageId = conn[r2].messageId
        /\ Launched(conn[r1])
        /\ EntryWasHeld(conn[r2])
        /\ conn[r2].tsBefore = conn[r1].tsAfter
        /\ now > conn[r1].tsAfter
        /\ Acknowledged(conn[r2])

ErrorStatus == {400, 401, 404, 405, 500}

Failed(c) == Ended(c) /\ c.res.statusCode \in ErrorStatus

\* A step that ends a request with an error status changes nothing of the
\* map and has called neither isMessageProcessed nor anything downstream.
ErrorTouchesNothing ==
    \A r \in Reqs :
        (conn'[r] # conn[r] /\ Failed(conn'[r]))
        => /\ processedMsgIds' = processedMsgIds
           /\ ~Made(conn'[r], "isMessageProcessed")
           /\ ~Made(conn'[r], "downloadMedia")
           /\ ~Made(conn'[r], "processInboundMessage")
           /\ ~Launched(conn'[r])
           /\ conn'[r].pc = "returned"

\* C8: a request answered 400, 401, 404, 405 or 500 never reaches the
\* de-duplication map or the dispatch: the map is as it was and nothing
\* downstream was started for it.
C8_ErrorsStopEarly == [][ErrorTouchesNothing]_vars

\* A delivery answered 500 after its body was read and its signature had
\* verified.
C8_Witness ==
    \E r \in Reqs :
        /\ Failed(conn[r])
        /\ conn[r].res.statusCode = 500
        /\ conn[r].req.method = "POST"
        /\ Made(conn[r], "readRequestBody")
        /\ Made(conn[r], "decryptMessage")

MissingParam(q) == q.signature = << >> \/ q.timestamp = << >> \/ q.nonce = << >>

Enabled(q) == AccountOf(q).enabled /\ AccountOf(q).corpId # ""

OnWebhook(q) == StartsWith(q.pathname, WebhookPrefix)

SignatureVerifies(q, payload) ==
    validateSignature(AccountOf(q).token, q.timestamp, q.nonce, payload, q.signature)

Decrypts(q, payload) ==
    decryptMessage(AccountOf(q).encodingAesKey, AccountOf(q).corpId, payload).ok

IsJsonError(res) ==
    /\ res.contentType = "application/json"
    /\ res.body \in {JsonError(e) : e \in {"Missing required parameters",
                                            "Invalid encrypted message format",
                                            "Invalid signature", "Decrypt failed"}}

\* The status of a POST delivery as its first failing check decides it; 200
\* when no check fails.
PostStatus(q) ==
    IF MissingParam(q) THEN 400
    ELSE IF ~q.hasEncrypt THEN 400
    ELSE IF ~SignatureVerifies(q, q.encrypt) THEN 401
    ELSE IF ~Decrypts(q, q.encrypt) THEN 500
    ELSE 200

\* The handler is past the reading of the body, or returned before it.
Decided(c) == c.pc \in {"media", "returned"}

\* C9: a POST to an enabled account is answered by the first failing check,
\* in the order parameters (400), <Encrypt> payload (400), signature over
\* the encrypted payload (401), decryption (500), each with a JSON
\* {error: string} body; a POST that fails none is not answered with an
\* error.
C9_PostChecksInOrder ==
    \A r \in Reqs :
        LET c == conn[r]
        IN  (/\ Decided(c)
             /\ OnWebhook(c.req)
             /\ Enabled(c.req)
             /\ c.req.method = "POST")
            => IF PostStatus(c.req) # 200
               THEN /\ c.res.ended = 1
                    /\ c.res.statusCode = PostStatus(c.req)
                    /\ IsJsonError(c.res)
               ELSE Ended(c) => Acknowledged(c)

\* A POST whose signature does not verify and whose payload does not
\* decrypt either was answered 401.
C9_Witness ==
    \E r \in Reqs :
        /\ conn[r].req.method = "POST" /\ Enabled(conn[r].req)
        /\ ~MissingParam(conn[r].req) /\ conn[r].req.hasEncrypt
        /\ ~SignatureVerifies(conn[r].req, conn[r].req.encrypt)
        /\ ~Decrypts(conn[r].req, conn[r].req.encrypt)
        /\ conn[r].res.statusCode = 401 /\ Ended(conn[r])

\* C10: a GET handshake to an enabled account: a missing signature,
\* timestamp, nonce or echostr gives 400; else a signature that does not
\* verify gives 401 "Invalid signature"; else an echostr that does not
\* decrypt gives 500; else 200 with the decrypted echostr as the whole body.
C10_GetHandshake ==
    \A r \in Reqs :
        LET c == conn[r]
            q == c.req
        IN  (/\ c.pc # "idle"
             /\ OnWebhook(q)
             /\ Enabled(q)
             /\ q.method = "GET")
            => /\ c.pc = "returned"
               /\ c.res.ended = 1
               /\ IF MissingParam(q) \/ q.echostr = << >>
                  THEN c.res.statusCode = 400
                  ELSE IF ~SignatureVerifies(q, q.echostr)
                  THEN /\ c.res.statusCode = 401
                       /\ c.res.body = Text("Invalid signature")
                  ELSE IF ~Decrypts(q, q.echostr)
                  THEN c.res.statusCode = 500
                  ELSE /\ c.res.statusCode = 200
                       /\ c.res.body = Frames[q.echostr[1]].msg

\* A handshake with a tampered signature over an echostr that would not
\* decrypt either was answered 401.
C10_Witness ==
    \E r \in Reqs :
        /\ conn[r].req.method = "GET"
        /\ conn[r].req.signature = BadSignature
        /\ ~MissingParam(conn[r].req)
        /\ conn[r].req.echostr # << >>
        /\ ~Decrypts(conn[r].req, conn[r].req.echostr)
        /\ conn[r].res.statusCode = 401 /\ Ended(conn[r])

\* The step in which request r arrives and the handler runs up to its first
\* await or to its return.
Arrives(r) == conn[r].pc = "idle" /\ conn'[r].pc # "idle"

CachesUnchanged == processedMsgIds' = processedMsgIds /\ tokenCache' = tokenCache

NothingVerified(c) ==
    /\ ~Made(c, "readRequestBody")
    /\ ~Made(c, "validateSignature")
    /\ ~Made(c, "decryptMessage")
    /\ ~Made(c, "isMessageProcessed")
    /\ ~Made(c, "getAccessToken")
    /\ ~Launched(c)

NotFoundStops ==
    \A r \in Reqs :
        (Arrives(r) /\ OnWebhook(conn'[r].req) /\ ~Enabled(conn'[r].req))
        => /\ conn'[r].pc = "returned"
           /\ conn'[r].handled = "true"
           /\ conn'[r].res.ended = 1
           /\ conn'[r].res.statusCode = 404
           /\ NothingVerified(conn'[r])
           /\ CachesUnchanged

\* C11: a request on the webhook path whose account is disabled or has an
\* empty corpId is answered 404 in the step in which it arrives, whatever
\* its method: no signature is verified, nothing is decrypted, and the
\* de-duplication map and the token cache are as they were.
C11_MissingAccountIs404 == [][NotFoundStops]_vars

\* A correctly signed POST to an account whose enabled flag is set and whose
\* corpId is empty was answered 404.
C11_Witness ==
    \E r \in Reqs :
        /\ conn[r].req.method = "POST"
        /\ conn[r].req.account = "nocorp"
        /\ AccountOf(conn[r].req).enabled
        /\ conn[r].req.signature = Sign("nocorp", conn[r].req.encrypt)
        /\ conn[r].res.statusCode = 404 /\ Ended(conn[r])

OtherPathUntouched ==
    \A r \in Reqs :
        (Arrives(r) /\ ~OnWebhook(conn'[r].req))
        => /\ conn'[r].pc = "returned"
           /\ conn'[r].handled = "false"
           /\ conn'[r].res = NoRes
           /\ conn'[r].ev = << >>
           /\ ~Launched(conn'[r])
           /\ CachesUnchanged

\* C13: a request whose path does not start with the webhook prefix is not
\* handled: the handler returns false, the response is as it was (no
\* status, no header, no body, not ended), and the de-duplication map and
\* the token cache are as they were.
C13_OtherPathsFallThrough == [][OtherPathUntouched]_vars

\* A correctly signed POST to another path was left to other handlers.
C13_Witness ==
    \E r \in Reqs :
        /\ conn[r].req.pathname = <<"/other">>
        /\ conn[r].req.method = "POST"
        /\ conn[r].handled = "false"
        /\ conn[r].res.ended = 0

OtherMethodIs405 ==
    \A r \in Reqs :
        (/\ Arrives(r)
         /\ OnWebhook(conn'[r].req)
         /\ Enabled(conn'[r].req)
         /\ conn'[r].req.method \notin {"GET", "POST"})
        => /\ conn'[r].pc = "returned"
           /\ conn'[r].res.ended = 1
           /\ conn'[r].res.statusCode = 405
           /\ conn'[r].res.allow = "GET, POST"
           /\ NothingVerified(conn'[r])
           /\ CachesUnchanged

\* C14: a request on the webhook path to an enabled account with a method
\* other than GET or POST is answered 405 with Allow: GET, POST in the step
\* in which it arrives; nothing is verified, admitted or started, and the
\* caches are as they were.
C14_OtherMethodsAre405 == [][OtherMethodIs405]_vars

\* A PUT to the enabled default account was answered 405.
C14_Witness ==
    \E r \in Reqs :
        /\ conn[r].req.method = "PUT"
        /\ Enabled(conn[r].req)
        /\ conn[r].res.statusCode = 405 /\ Ended(conn[r])

\* The delivery passed every check of the POST path.
Authentic(c) ==
    /\ c.req.method = "POST"
    /\ OnWebhook(c.req)
    /\ Enabled(c.req)
    /\ PostStatus(c.req) = 200

KnownTypes == {"text", "image", "voice", "video", "file", "location", "link", "event"}

\* The messages the handler drops: an unknown MsgType, an unsubscribe event,
\* an event other than click, subscribe and location, an empty text.
DroppedKind(msg) ==
    LET msgType == Field(msg, "MsgType")
        event == Field(msg, "Event")
    IN  \/ msgType \notin KnownTypes
        \/ msgType = "event" /\ event \notin {"click", "subscribe", "location"}
        \/ msgType = "text" /\ Field(msg, "Content") = ""
        \/ msgType = "event" /\ event = "click" /\ Field(msg, "EventKey") = ""

\* C15: an authenticated, newly admitted POST whose message has an unknown
\* MsgType, is an unsubscribe event, is an event other than click, subscribe
\* or location, or has an empty text is answered 200 "success" and
\* processInboundMessage is not started for it.
C15_DroppedKindsAreAcknowledged ==
    \A r \in Reqs :
        (/\ Authentic(conn[r])
         /\ conn[r].dup = "new"
         /\ DroppedKind(conn[r].msg))
        => /\ conn[r].pc = "returned"
           /\ Acknowledged(conn[r])
           /\ ~Launched(conn[r])
           /\ ~Made(conn[r], "processInboundMessage")

\* A text message without Content was admitted and acknowledged.
C15_Witness ==
    \E r \in Reqs :
        /\ Authentic(conn[r])
        /\ conn[r].dup = "new"
        /\ Field(conn[r].msg, "MsgType") = "text"
        /\ Field(conn[r].msg, "Content") = ""
        /\ Acknowledged(conn[r])

\* The number of times a call was made for a request.
Count(ev, name) == Cardinality({i \in DOMAIN ev : ev[i] = name})

\* The text a text message, a click and a subscribe event are forwarded with.
ExpectedText(msg) ==
    IF Field(msg, "MsgType") = "text" THEN Field(msg, "Content")
    ELSE IF Field(msg, "Event") = "click" THEN Field(msg, "EventKey")
    ELSE "/help"

\* C16: an authenticated, newly admitted text message with a Content, click
\* event with an EventKey or subscribe event is answered 200 "success" and
\* processInboundMessage is started for it exactly once, with its Content,
\* its EventKey or "/help" as the text.
C16_ForwardedOnceWithItsText ==
    \A r \in Reqs :
        LET c == conn[r]
        IN  (/\ Authentic(c)
             /\ c.dup = "new"
             /\ \/ Field(c.msg, "MsgType") = "text"
                \/ /\ Field(c.msg, "MsgType") = "event"
                   /\ Field(c.msg, "Event") \in {"click", "subscribe"}
             /\ ExpectedText(c.msg) # "")
            => /\ c.pc = "returned"
               /\ Acknowledged(c)
               /\ Launched(c)
               /\ Count(c.ev, "processInboundMessage") = 1
               /\ c.text = ExpectedText(c.msg)

\* A click event was forwarded with its EventKey.
C16_Witness ==
    \E r \in Reqs :
        /\ Authentic(conn[r])
        /\ Field(conn[r].msg, "Event") = "click"
        /\ Launched(conn[r])
        /\ conn[r].text = "/reset"
        /\ Acknowledged(conn[r])

\* C17: when the media download of an image, voice, video or file message
\* fails, the request is still answered 200 "success" and
\* processInboundMessage is still started, once, with the placeholder
\* description as the text and without a file path.
C17_FailedDownloadStillForwards ==
    \A r \in Reqs :
        LET c == conn[r]
        IN  c.download = "failed"
            => /\ Field(c.msg, "MsgType") \in {"image", "voice", "video", "file"}
               /\ c.pc = "returned"
               /\ Acknowledged(c)
               /\ Launched(c)
               /\ Count(c.ev, "processInboundMessage") = 1
               /\ c.text = "[" \o c.msg["MsgType"] \o "] (download failed)"
               /\ c.mediaFilePath = ""

\* The token was obtained and stored, and the download itself failed.
C17_Witness ==
    \E r \in Reqs :
        /\ conn[r].download = "failed"
        /\ Made(conn[r], "gettoken")
        /\ tokenCache # << >>
        /\ Launched(conn[r])

TaskFailureContained ==
    \A r \in Reqs :
        (conn[r].task = "running" /\ conn'[r].task = "failed")
        => /\ conn'[r].res = conn[r].res
           /\ Acknowledged(conn'[r])
           /\ conn'[r].pc = "returned"
           /\ conn'[r].handled = "true"
           /\ conn'[r].ev = conn[r].ev

\* C18: when processInboundMessage fails after the acknowledgment, the
\* response stays as it was sent (ended once, 200, "success") and the
\* handler's own result stays "handled": the failure does not leave the
\* detached task.
C18_TaskFailureIsContained == [][TaskFailureContained]_vars

\* The detached task of an acknowledged delivery failed.
C18_Witness ==
    \E r \in Reqs :
        /\ conn[r].task = "failed"
        /\ Acknowledged(conn[r])
        /\ conn[r].handled = "true"

(***************************************************************************)
(* Properties of the de-duplication cache.                                 *)
(***************************************************************************)

\* C3: an identifier is reported new on its first call and duplicate on
\* every later call made within MSG_ID_CACHE_TTL of the call that reported
\* it new, whatever else was admitted in between and whatever the map size.
C3_DupWithinTtl ==
    lastCall.made =>
        /\ (lastCall.prevNew = NoTime => ~lastCall.dup)
        /\ (/\ lastCall.prevNew # NoTime
            /\ lastCall.at - lastCall.prevNew <= MSG_ID_CACHE_TTL
            => lastCall.dup)

\* A duplicate reported exactly TTL after the first sighting, by a call that
\* ran the sweep.
C3_Witness ==
    /\ lastCall.made
    /\ lastCall.dup
    /\ lastCall.at - lastCall.prevNew = MSG_ID_CACHE_TTL
    /\ 2 * lastCall.sizeBefore > MSG_ID_CACHE_MAX_SIZE

\* C4: a call for an identifier that is in the map leaves its stored
\* timestamp as it was; the stored timestamp of a tracked identifier is
\* always the time it was last reported new, never the time of a duplicate.
C4_DupKeepsFirstSeen ==
    /\ (lastCall.made /\ lastCall.dup =>
            /\ lastCall.id \in DOMAIN processedMsgIds
            /\ processedMsgIds[lastCall.id] = lastCall.tsBefore)
    /\ \A id \in TrackedIds \cap DOMAIN processedMsgIds :
            processedMsgIds[id] = TsOf(admitted, id)

\* A duplicate that arrived later than the first sighting.
C4_Witness ==
    /\ lastCall.made
    /\ lastCall.dup
    /\ lastCall.at > lastCall.tsBefore

\* C5: a call made while the map holds more than MAX_SIZE / 2 entries sweeps
\* before it checks membership: an identifier whose entry is older than the
\* TTL is reported new by that call and re-inserted with the call's time,
\* and the call leaves no entry older than the TTL behind.
C5_SweepThenReadmit ==
    (/\ lastCall.made
     /\ 2 * lastCall.sizeBefore > MSG_ID_CACHE_MAX_SIZE)
    => /\ \A id \in DOMAIN processedMsgIds :
              lastCall.at - processedMsgIds[id] <= MSG_ID_CACHE_TTL
       /\ (/\ lastCall.tsBefore # NoTime
           /\ lastCall.at - lastCall.tsBefore > MSG_ID_CACHE_TTL
           => /\ ~lastCall.dup
              /\ lastCall.id \in DOMAIN processedMsgIds
              /\ processedMsgIds[lastCall.id] = lastCall.at)

\* An expired identifier called again while more than MAX_SIZE / 2 entries
\* were held.
C5_Witness ==
    /\ lastCall.made
    /\ 2 * lastCall.sizeBefore > MSG_ID_CACHE_MAX_SIZE
    /\ lastCall.tsBefore # NoTime
    /\ lastCall.at - lastCall.tsBefore > MSG_ID_CACHE_TTL
    /\ ~lastCall.dup

\* No step removes or changes an entry whose age is at most the TTL.
YoungEntriesStay ==
    \A id \in DOMAIN processedMsgIds :
        now - processedMsgIds[id] <= MSG_ID_CACHE_TTL
        => /\ id \in DOMAIN processedMsgIds'
           /\ processedMsgIds'[id] = processedMsgIds[id]

\* An identifier that the sweep leaves absent is inserted with the call's
\* time and reported new, whatever the map size.
AbsentIsInserted ==
    (/\ lastCall'.made
     /\ lastCall' # lastCall
     /\ \/ lastCall'.tsBefore = NoTime
        \/ /\ 2 * lastCall'.sizeBefore > MSG_ID_CACHE_MAX_SIZE
           /\ lastCall'.at - lastCall'.tsBefore > MSG_ID_CACHE_TTL)
    => /\ ~lastCall'.dup
       /\ lastCall'.id \in DOMAIN processedMsgIds'
       /\ processedMsgIds'[lastCall'.id] = lastCall'.at

C7_SizeBounded == Size(processedMsgIds) <= MSG_ID_CACHE_MAX_SIZE

(***************************************************************************)
(* Properties of the outbound entry points and of the token cache.         *)
(***************************************************************************)

\* C12: no caller has sent a request to the platform on behalf of an account
\* whose corpId is empty.
C12_EmptyCorpIdNeverCalls ==
    \A c \in Callers : tcall[c].cfg.corpId = "" => tcall[c].net = << >>

\* The caller's step is a getAccessToken call that has looked at the cache.
LooksUp(c) ==
    /\ tcall'[c] # tcall[c]
    /\ tcall'[c].at # NoTime
    /\ tcall[c].pc # "token"

\* The time up to which the entry a caller saw is served: t + (E - 120) * 1000
ServedUntil(log) == log.at + (log.expires_in - 120) * 1000

ServedOrRefetched ==
    \A c \in Callers :
        LET k == tcall'[c]
        IN  LooksUp(c) =>
                IF k.seenLog.has /\ k.at < ServedUntil(k.seenLog)
                THEN /\ k.hit
                     /\ k.token = k.seenLog.token
                     /\ Count(k.net, "gettoken") = 0
                     /\ k.pc = "done" /\ k.result = "ok"
                     /\ tokenCache' = tokenCache
                ELSE /\ ~k.hit
                     /\ Count(k.net, "gettoken") = 1
                     /\ k.pc = "token"
                     /\ tokenCache' = tokenCache

RefreshReplaces ==
    \A c \in Callers :
        (tcall[c].pc = "token" /\ tcall'[c].result = "ok")
        => LET key == CacheKey(tcall[c].cfg)
           IN  /\ key \in DOMAIN tokenCache'
               /\ tokenCache'[key].token = tcall'[c].token
               /\ tokenCache'[key].expiry = ServedUntil(tokenLog'[key])
               /\ tokenLog'[key].at = now
               /\ tokenLog'[key].token = tcall'[c].token
               /\ Count(tcall'[c].net, "gettoken") = 1
               /\ \A other \in DOMAIN tokenCache' \ {key} :
                      other \in DOMAIN tokenCache /\ tokenCache'[other] = tokenCache[other]

\* C19: after a token was stored at time t with expires_in = E for a key, a
\* getAccessToken call for that key made before t + (E - 120) * 1000 returns
\* the stored token without a request to the token endpoint; a call made at
\* or after that instant sends exactly one request, and its reply replaces
\* the entry of the key, and of no other key, with the new token, stored
\* with the time of the reply.
C19_ServedUntilExpiry == [][ServedOrRefetched /\ RefreshReplaces]_vars

\* A call made exactly (7200 - 120) * 1000 ms after the store asked the
\* endpoint again and got a new token.
C19_Witness ==
    \E c \in Callers :
        /\ tcall[c].seenLog.has
        /\ tcall[c].seenLog.expires_in = 7200
        /\ tcall[c].at = ServedUntil(tcall[c].seenLog)
        /\ tcall[c].result = "ok"
        /\ tcall[c].token # tcall[c].seenLog.token

TokenFailureLeavesCache ==
    \A c \in Callers :
        (tcall[c].pc = "token" /\ tcall'[c].result = "error")
        => /\ tokenCache' = tokenCache
           /\ tcall'[c].pc = "done"
           /\ tcall'[c].token = 0
           /\ tcall'[c].error \in {"access_token failed: 40013 invalid corpid", "fetch failed"}
           /\ LET key == CacheKey(tcall[c].cfg)
              IN  CacheGet(tokenCache', key) = tcall[c].seen
                  => ~(tcall[c].seen.has /\ now < tcall[c].seen.expiry)

\* C20: when the token endpoint answers with a nonzero errcode,
\* getAccessToken fails with an error that carries the errcode and the
\* errmsg, and the token cache is as it was: a key without an entry still
\* has none, and an expired entry is still there and still expired, so that
\* the next call for the key asks the endpoint again.
C20_TokenFailureLeavesCache == [][TokenFailureLeavesCache]_vars

\* A refresh of an expired entry failed with the endpoint's errcode, and the
\* expired entry is still in the cache.
C20_Witness ==
    \E c \in Callers :
        /\ tcall[c].result = "error"
        /\ tcall[c].error = "access_token failed: 40013 invalid corpid"
        /\ tcall[c].seen.has
        /\ CacheGet(tokenCache, CacheKey(tcall[c].cfg)) = tcall[c].seen

\* The caller's step is a getAccessToken call that got a token from the
\* endpoint and stored it.
Refreshes(c, key) ==
    /\ tcall[c].pc = "token"
    /\ CacheKey(tcall[c].cfg) = key
    /\ tcall'[c].token # 0
    /\ tcall'[c].pc \in {"api", "done"}
    /\ tcall'[c].result # "error"

\* An entry appears or changes only in the step of a successful refresh for
\* its key, and then both of its fields are the refresh's.
ReplacedOnlyByRefresh ==
    \A key \in DOMAIN tokenCache' :
        CacheGet(tokenCache', key) # CacheGet(tokenCache, key)
        => \E c \in Callers :
              /\ Refreshes(c, key)
              /\ tokenCache'[key] =
                    [token |-> tcall'[c].token,
                     expiry |-> now + (tokenLog'[key].expires_in - 120) * 1000]
              /\ tcall'[c].token = issued'
              /\ issued' = issued + 1

\* An entry disappears only in a clearTokenCache step, with all the others.
RemovedOnlyByClear ==
    (\E key \in DOMAIN tokenCache : key \notin DOMAIN tokenCache')
    => /\ tokenCache' = << >>
       /\ tcall' = tcall
       /\ cleared' = [NoClear EXCEPT !.on = TRUE]

\* The first getAccessToken for a key after a clear asks the token endpoint.
FirstAfterClearFetches ==
    \A c \in Callers :
        LET k == tcall'[c]
            key == CacheKey(k.cfg)
        IN  (LooksUp(c) /\ cleared.on /\ key \notin cleared.asked)
            => /\ ~k.hit
               /\ k.pc = "token"
               /\ Count(k.net, "gettoken") = 1

\* The same, but for a key whose entry was stored since the clear by a
\* refresh that was waiting for the endpoint when the cache was cleared:
\* that entry is served as any other.
FirstAfterClearFetchesUnlessRestored ==
    \A c \in Callers :
        LET k == tcall'[c]
            key == CacheKey(k.cfg)
        IN  (LooksUp(c) /\ cleared.on /\ key \notin cleared.asked)
            => IF key \in cleared.stored /\ TokenFresh(tokenCache, key, now)
               THEN /\ k.hit
                    /\ k.token = tokenCache[key].token
                    /\ Count(k.net, "gettoken") = 0
               ELSE /\ ~k.hit
                    /\ k.pc = "token"
                    /\ Count(k.net, "gettoken") = 1

\* C21 as stated: an entry of the token cache is replaced only as a whole,
\* by a successful refresh for its own key; it is removed only by
\* clearTokenCache, which removes every entry; and the first getAccessToken
\* for any key after a clear asks the token endpoint.
C21_NextCallAfterClearFetches ==
    [][ReplacedOnlyByRefresh /\ RemovedOnlyByClear /\ FirstAfterClearFetches]_vars

\* C21, amended: an entry of the token cache is replaced only as a whole, by
\* a successful refresh for its own key; it is removed only by
\* clearTokenCache, which removes every entry; and the first getAccessToken
\* for a key after a clear asks the token endpoint, unless a refresh for
\* that key that was waiting for the endpoint when the cache was cleared has
\* stored its token since, which is then served from the cache.
C21_ClearedUntilRestored ==
    [][ReplacedOnlyByRefresh /\ RemovedOnlyByClear
         /\ FirstAfterClearFetchesUnlessRestored]_vars

\* The cache was cleared while a refresh was waiting for the endpoint, the
\* refresh stored its token, and the next call for the key was served it.
C21_Witness ==
    \E c \in Callers :
        LET key == CacheKey(tcall[c].cfg)
        IN  /\ cleared.on
            /\ key \in cleared.stored
            /\ key \in cleared.asked
            /\ tcall[c].hit
            /\ tcall[c].result = "ok"
            /\ key \in DOMAIN tokenCache
            /\ tcall[c].token = tokenCache[key].token

\* The entry a caller's getAccessToken found does not serve: there is none,
\* or it has expired.
Missed(k) == ~(k.seen.has /\ k.at < k.seen.expiry)

\* A call that finds no entry to serve sends its own request to the token
\* endpoint, whoever else is waiting for a reply for the same key.
EachMissFetches ==
    \A c \in Callers :
        (LooksUp(c) /\ Missed(tcall'[c]))
        => /\ tcall'[c].pc = "token"
           /\ Count(tcall'[c].net, "gettoken") = 1
           /\ \A d \in Callers \ {c} : tcall'[d] = tcall[d]

\* A reply makes its call return the token of that reply, and puts it in
\* the cache in place of whatever another call stored there.
EachReturnsItsOwn ==
    \A c \in Callers :
        (tcall[c].pc = "token" /\ tcall'[c].result = "ok")
        => LET key == CacheKey(tcall[c].cfg)
           IN  /\ tcall'[c].token = issued + 1
               /\ \A d \in Callers \ {c} :
                      /\ tcall'[d] = tcall[d]
                      /\ tcall[d].token # tcall'[c].token
               /\ key \in DOMAIN tokenCache'
               /\ tokenCache'[key].token = tcall'[c].token

\* A call that waits for the token endpoint can go on as soon as its reply
\* is there: it waits for no other call.
NoCallWaitsForAnother ==
    \A c \in Callers : tcall[c].pc = "token" => ENABLED TokenSettled(c)

\* The cache holds, for a key, the token of the refresh that completed
\* last: tokens are numbered in the order in which the replies are handled.
LastRefreshWins ==
    \A c \in Callers :
        (tcall[c].result = "ok" /\ ~tcall[c].hit)
        => LET key == CacheKey(tcall[c].cfg)
           IN  /\ key \in DOMAIN tokenCache
               /\ tokenCache[key].token >= tcall[c].token
               /\ tokenCache[key].token = LogGet(tokenLog, key).token
               /\ tokenCache[key].token <= issued

\* C22: two getAccessToken callers for one key that both find no entry to
\* serve each send their own request to the token endpoint; a caller waits
\* for no other caller, of its key or of another; each returns the token of
\* its own reply; and the cache holds the entry of the refresh that
\* completed last.
C22_RacingCallersEachRefresh ==
    /\ [](NoCallWaitsForAnother /\ LastRefreshWins)
    /\ [][EachMissFetches /\ EachReturnsItsOwn]_vars

\* Two callers for the same key both saw the same entry, or none, both asked
\* the endpoint, and have returned different tokens; the cache holds the
\* one whose reply was handled last.
C22_Witness ==
    \E c, d \in Callers :
        /\ c < d
        /\ CacheKey(tcall[c].cfg) = CacheKey(tcall[d].cfg)
        /\ tcall[c].seen = tcall[d].seen
        /\ tcall[c].result = "ok" /\ ~tcall[c].hit
        /\ tcall[d].result = "ok" /\ ~tcall[d].hit
        /\ tcall[c].token > tcall[d].token
        /\ tokenCache[CacheKey(tcall[c].cfg)].token = tcall[c].token

(***************************************************************************)
(* Properties of the delivery of reply payloads.                           *)
(***************************************************************************)
Structured == {"mediaUrl", "mediaUrls", "image", "file", "video", "voice"}

\* The structured fields of the payload that name a file, whatever was sent.
Present(d) == {n \in 1..6 : StagePaths(d.payload, Stages[n], FALSE, d.disk) # << >>}

\* The steps for which deliver has called sendMediaFile.
Attempted(d) == {d.tries[i].stage : i \in DOMAIN d.tries}

Delivered(d) == d.pc = "done"

\* A file was sent through a structured field.
SentStructured(d) ==
    \E i \in DOMAIN d.tries : d.tries[i].stage \in Structured /\ d.tries[i].sent

TextOps(d) == {i \in DOMAIN d.ops : d.ops[i].op = "sendWeComMessage"}

\* C23: in one delivery sendMediaFile is called for one structured field
\* only, the first in the order mediaUrl, mediaUrls, image, file, video,
\* voice or audio that the payload carries, and for none after it.
C23_OneStructuredPath ==
    Delivered(dlv)
    => \A n \in Present(dlv) :
          IF \A other \in Present(dlv) : n <= other
          THEN Stages[n] \in Attempted(dlv)
          ELSE Stages[n] \notin Attempted(dlv)

\* The files handed to sendMediaFile for one step, in the order of the calls.
TriedFor(d, stage) ==
    LET of == SelectSeq(d.tries, LAMBDA try : try.stage = stage)
    IN  [i \in DOMAIN of |-> of[i].path]

\* C24: a file that is missing, whose upload fails or whose send fails makes
\* sendMediaFile return false and nothing else: every item of mediaUrls is
\* handed to sendMediaFile, in the order of the list, and the text step
\* follows: a delivery that sent no file sends the whole reply text, and a
\* delivery is only ever rejected by the failure of its text message.
C24_MediaFailuresAreContained ==
    Delivered(dlv)
    => /\ TriedFor(dlv, "mediaUrls") = dlv.payload.mediaUrls
       /\ dlv.result = "thrown"
          => /\ dlv.ops # << >>
             /\ dlv.ops[Len(dlv.ops)].op = "sendWeComMessage"
       /\ (~dlv.mediaSent /\ ReplyText(dlv.payload) # << >>)
          => /\ dlv.ops # << >>
             /\ dlv.ops[Len(dlv.ops)] =
                   Op("sendWeComMessage", "text", ReplyText(dlv.payload))
       /\ dlv.mediaSent = \E i \in DOMAIN dlv.tries : dlv.tries[i].sent

\* Of a list of four files the first was missing, the upload of the second
\* failed, the send of the third failed, the fourth was sent, and the text
\* followed.
C24_Witness ==
    /\ Delivered(dlv)
    /\ dlv.payload.mediaUrls = <<Gone, Mp3, Mp4, Png>>
    /\ dlv.payload.mediaUrl = << >>
    /\ dlv.tries = <<[stage |-> "mediaUrls", path |-> Gone, sent |-> FALSE],
                     [stage |-> "mediaUrls", path |-> Mp3, sent |-> FALSE],
                     [stage |-> "mediaUrls", path |-> Mp4, sent |-> FALSE],
                     [stage |-> "mediaUrls", path |-> Png, sent |-> TRUE]>>
    /\ dlv.ops = <<Op("uploadMedia", "file", Mp3), Op("uploadMedia", "video", Mp4),
                   Op("sendWeComVideo", "video", Mp4), Op("uploadMedia", "image", Png),
                   Op("sendWeComImage", "image", Png),
                   Op("sendWeComMessage", "text", Caption)>>
    /\ dlv.result = "ok"

\* The extensions the regular expression of part_001:523 names.
KnownExts == {PathExts[n] : n \in DOMAIN PathExts}

\* The text with the first occurrence of a file's path taken out, trimmed.
Without(text, filePath) ==
    LET at == CHOOSE i \in 1..Len(text) :
                  /\ At(text, i, filePath)
                  /\ \A j \in 1..Len(text) : At(text, j, filePath) => i <= j
    IN  Trim(SubSeq(text, 1, at - 1) \o SubSeq(text, at + Len(filePath), Len(text)))

\* C25: when no structured field has sent a file and the reply text holds
\* the path of an existing file with one of the known extensions, that file
\* is handed to sendMediaFile, and once it is sent, the text without the
\* path is sent as a text message, unless it is empty or matches a failure
\* phrase, and then no text message is sent.
C25_PathInTextIsSent ==
    \A filePath \in dlv.disk :
        (/\ Delivered(dlv)
         /\ ~SentStructured(dlv)
         /\ ExtensionOf(filePath) \in KnownExts
         /\ Contains(ReplyText(dlv.payload), filePath))
        => /\ TriedFor(dlv, "text") = <<filePath>>
           /\ dlv.tries[Len(dlv.tries)].sent
              => LET rest == Without(ReplyText(dlv.payload), filePath)
                 IN  IF rest = << >> \/ MatchesFailure(rest)
                     THEN TextOps(dlv) = {}
                     ELSE /\ TextOps(dlv) = {Len(dlv.ops)}
                          /\ dlv.ops[Len(dlv.ops)].what = rest

\* The reply text is one that is held back after a media send.
HeldBack(text) == isErrorMessage(text) \/ isConfigError(text)

\* What is left of the reply text once a file was sent: the text itself, or
\* the text without the path when the file sent is the one it names.
Remaining(d) ==
    IF SentStructured(d) THEN ReplyText(d.payload)
    ELSE Without(ReplyText(d.payload), d.tries[Len(d.tries)].path)

\* C26 as stated: after any file was sent in a delivery, a remaining reply
\* text that begins with an apology or a failure phrase, or that mentions a
\* configuration or implementation defect, is not sent, and any other
\* remaining text that is not empty is sent as a text message.
C26_TextAfterAnyMedia ==
    (Delivered(dlv) /\ dlv.mediaSent)
    => IF HeldBack(Remaining(dlv))
       THEN TextOps(dlv) = {}
       ELSE Remaining(dlv) # << >> => TextOps(dlv) # {}

\* C26, amended: after a file was sent through a structured field of the
\* payload, a reply text that begins with an apology or a failure phrase, or
\* that mentions a configuration or implementation defect, is not sent, and
\* any other reply text that is not empty is sent whole as a text message.
C26_TextAfterStructuredMedia ==
    (Delivered(dlv) /\ SentStructured(dlv))
    => IF HeldBack(ReplyText(dlv.payload)) \/ ReplyText(dlv.payload) = << >>
       THEN TextOps(dlv) = {}
       ELSE /\ TextOps(dlv) = {Len(dlv.ops)}
            /\ dlv.ops[Len(dlv.ops)].what = ReplyText(dlv.payload)

\* An image was sent through mediaUrl and the apology of the text was not.
C26_Witness ==
    /\ Delivered(dlv)
    /\ dlv.payload.mediaUrl = Png
    /\ dlv.payload.text = Sorry
    /\ dlv.tries = <<[stage |-> "mediaUrl", path |-> Png, sent |-> TRUE]>>
    /\ dlv.ops = <<Op("uploadMedia", "image", Png), Op("sendWeComImage", "image", Png)>>
    /\ dlv.result = "ok"

IsAmr(filePath) == ExtensionOf(filePath) = <<"a", "m", "r">>

\* C27: an existing file with a voice extension is never turned away: it is
\* uploaded, with type voice and sent by sendWeComVoice when it is an .amr
\* file, and with type file and sent by sendWeComFile when it is not.
C27_VoiceOnlyForAmr ==
    /\ \A i \in DOMAIN dlv.ops :
          getMediaType(dlv.ops[i].what) = "voice" /\ dlv.ops[i].op # "sendWeComMessage"
          => IF IsAmr(dlv.ops[i].what)
             THEN /\ dlv.ops[i].type = "voice"
                  /\ dlv.ops[i].op \in {"uploadMedia", "sendWeComVoice"}
             ELSE /\ dlv.ops[i].type = "file"
                  /\ dlv.ops[i].op \in {"uploadMedia", "sendWeComFile"}
    /\ \A i \in DOMAIN dlv.tries :
          (getMediaType(dlv.tries[i].path) = "voice" /\ dlv.tries[i].path \in dlv.disk)
          => \E j \in DOMAIN dlv.ops :
                dlv.ops[j] = Op("uploadMedia", UploadTypeOf(dlv.tries[i].path),
                                dlv.tries[i].path)

\* An .mp3 file went out through sendWeComFile and an .AMR file through
\* sendWeComVoice, in one delivery.
C27_Witness ==
    /\ Delivered(dlv)
    /\ \E i, j \in DOMAIN dlv.ops :
          /\ dlv.ops[i] = Op("sendWeComFile", "file", Mp3)
          /\ dlv.ops[j] = Op("sendWeComVoice", "voice", Amr)
    /\ \A i \in DOMAIN dlv.tries : dlv.tries[i].path \in dlv.disk => dlv.tries[i].sent

(***************************************************************************)
(* Properties of downloadMedia.                                            *)
(***************************************************************************)
\* The response says it is JSON: its Content-Type is application/json, with
\* or without parameters.
JsonResponse(response) ==
    response.contentType # << >> /\ Head(response.contentType) = "application/json"

\* The error names the code and the message of the envelope.
Carries(error, body) ==
    /\ error # << >>
    /\ \E i \in DOMAIN error : error[i] = body.errcode
    /\ \E i \in DOMAIN error : error[i] = body.errmsg

\* C28: when the media endpoint answers with Content-Type application/json,
\* downloadMedia fails; its error carries the errcode and the errmsg of the
\* envelope; the directory is not created and no file is written.
C28_JsonResponseWritesNothing ==
    (dl.pc \in {"json", "done"} /\ JsonResponse(dl.response)) =>
        /\ dl.fs = dl.before
        /\ dl.filePath = ""
        /\ dl.pc = "done" =>
              /\ dl.error # << >>
              /\ dl.response.body.kind = "envelope" => Carries(dl.error, dl.response.body)

\* A call that met a missing directory and the envelope 40007 has thrown.
C28_Witness ==
    /\ dl.pc = "done"
    /\ dl.response = Response(JsonUtf8Type, "", InvalidMedia)
    /\ dl.error = DownloadError(InvalidMedia)
    /\ MediaSaveDir \notin dl.before.dirs
    /\ dl.fs = Fs({}, {})

(***************************************************************************)
(* Properties of validateSignature and decryptMessage.                     *)
(***************************************************************************)
\* The orders in which three arguments can be passed.
Orders == {p \in [1..3 -> 1..3] : \A i, j \in 1..3 : i # j => p[i] # p[j]}

\* C29: validateSignature gives the same result whatever the order in which
\* timestamp, nonce and payload are passed.
C29_SignatureIgnoresOrder ==
    crypto.fn = "validateSignature" =>
        LET a == crypto.args
            x == <<a[2], a[3], a[4]>>
        IN  \A p \in Orders :
               validateSignature(a[1], x[p[1]], x[p[2]], x[p[3]], a[5]) = crypto.result

\* A signature was accepted for three different strings passed out of order.
C29_Witness ==
    /\ crypto.fn = "validateSignature"
    /\ crypto.result
    /\ crypto.args[2] = <<2>>
    /\ crypto.args[3] = <<1, 2>>
    /\ crypto.args[4] = <<1>>

\* C30: what the platform encrypted for a corp identifier decrypts, under
\* the same key, to the message when that identifier is the expected one,
\* and fails with the corp identifier error when it is another one.
C30_DecryptInvertsEncrypt ==
    (crypto.fn = "decryptMessage" /\ crypto.args.key = crypto.args.encodingAesKey) =>
        IF crypto.args.sender = crypto.args.corpId
        THEN crypto.result.ok /\ crypto.result.msg = crypto.args.m
        ELSE ~crypto.result.ok /\ crypto.result.error = "CorpID mismatch"

\* A message that was padded with a whole block of 32 bytes came back.
C30_Witness ==
    /\ crypto.fn = "decryptMessage"
    /\ crypto.result = Decrypted(Repeat(65, 10))
    /\ crypto.args.m = Repeat(65, 10)
    /\ crypto.args.sender = <<67, 68>>

(***************************************************************************)
(* Properties of the message identifier.                                   *)
(***************************************************************************)
\* msg.MsgId is there and not empty.
HasMsgId(msg) == Field(msg, "MsgId") # ""

\* Two messages agree on MsgType, Event, CreateTime and FromUserName; an
\* absent Event and an empty one are the same.
SameFour(a, b) ==
    \A n \in {"MsgType", "Event", "CreateTime", "FromUserName"} : Field(a, n) = Field(b, n)

\* Two deliveries without MsgId that agree on the four fields get one
\* identifier, whatever their EventKey.
SameFourSameId ==
    crypto.fn = "messageId" =>
        LET a == crypto.args[1]
            b == crypto.args[2]
        IN  /\ HasMsgId(a) => crypto.result[1] = a["MsgId"]
            /\ (~HasMsgId(a) /\ ~HasMsgId(b) /\ SameFour(a, b)) =>
                  crypto.result[1] = crypto.result[2]

\* C31: the identifier is MsgId when present; two deliveries without MsgId
\* get the same identifier if and only if they agree on MsgType, Event,
\* CreateTime and FromUserName.
C31_IdentifierOfTheFourFields ==
    crypto.fn = "messageId" =>
        LET a == crypto.args[1]
            b == crypto.args[2]
        IN  /\ HasMsgId(a) => crypto.result[1] = a["MsgId"]
            /\ (~HasMsgId(a) /\ ~HasMsgId(b)) =>
                  (crypto.result[1] = crypto.result[2] <=> SameFour(a, b))

(***************************************************************************)
(* Further properties of the webhook handler.                              *)
(***************************************************************************)
\* What is signed and decrypted: echostr on GET, the <Encrypt> content on POST.
PayloadOf(q) == IF q.method = "GET" THEN q.echostr ELSE q.encrypt

\* The call named first was made before the call named second.
MadeBefore(c, first, second) ==
    \E i, j \in DOMAIN c.ev : i < j /\ c.ev[i] = first /\ c.ev[j] = second

\* C32: on GET and on POST, decryptMessage is called only after
\* validateSignature was, and only when the signature over the payload that
\* is decrypted verifies against the token of the account.
C32_DecryptOnlyAfterSignature ==
    \A r \in Reqs :
        LET c == conn[r]
        IN  Made(c, "decryptMessage") =>
               /\ c.req.method \in {"GET", "POST"}
               /\ MadeBefore(c, "validateSignature", "decryptMessage")
               /\ SignatureVerifies(c.req, PayloadOf(c.req))

\* A delivery whose signature verified was decrypted, and the decryption
\* failed.
C32_Witness ==
    \E r \in Reqs :
        /\ conn[r].req.method = "POST"
        /\ SignatureVerifies(conn[r].req, conn[r].req.encrypt)
        /\ Made(conn[r], "decryptMessage")
        /\ conn[r].res.statusCode = 500
        /\ Ended(conn[r])

\* res.end was called at most once on every response.
EndedAtMostOnce == \A r \in Reqs : conn[r].res.ended <= 1

\* A response that was ended stays as it is: status, headers and body.
EndedIsFinal == \A r \in Reqs : Ended(conn[r]) => conn'[r].res = conn[r].res

\* C33: the response of a request is ended at most once, and once ended
\* nothing is written to it, also not while or after the detached task runs.
C33_ResponseEndedOnce == [](EndedAtMostOnce) /\ [][EndedIsFinal]_vars

\* The detached task of an acknowledged delivery has finished, and the
\* response was ended once.
C33_Witness ==
    \E r \in Reqs :
        /\ conn[r].task = "ok"
        /\ conn[r].res.ended = 1
        /\ Acknowledged(conn[r])

\* The handler took request r, which is on the webhook path.
Taken(r) == conn[r].pc # "idle" /\ OnWebhook(conn[r].req)

\* Every request whose body is read to its end is answered.
AnsweredUnlessBodyFails ==
    \A r \in 1..MaxReqs : Taken(r) ~> (Ended(conn[r]) \/ conn[r].pc = "threw")

\* C34: every request on the webhook path is answered in the end, also when
\* the reading of its body fails.
C34_EveryRequestIsAnswered == \A r \in 1..MaxReqs : Taken(r) ~> Ended(conn[r])

\* The handler of the request is suspended at an await, or its detached
\* task is running.
InFlight(c) == c.pc \in {"body", "token", "media"} \/ c.task = "running"

\* In this step request r2 is checked against the map, while request r1,
\* admitted with the same identifier, is in flight.
SecondCheck(r1, r2) ==
    /\ r1 # r2
    /\ conn[r2].pc = "body"
    /\ conn'[r2].dup # "none"
    /\ InFlight(conn[r1])
    /\ conn[r1].dup = "new"
    /\ conn[r1].messageId = conn'[r2].messageId

\* The second of the two is a duplicate: answered, nothing downloaded,
\* nothing launched.
SecondIsDuplicate(r2) ==
    /\ conn'[r2].dup = "dup"
    /\ Acknowledged(conn'[r2])
    /\ ~Launched(conn'[r2])
    /\ ~Made(conn'[r2], "downloadMedia")

\* No sweep is due at the time of the check that would remove the entry of
\* r1: it is no older than the TTL, or the map holds at most half its
\* maximum.
EntryStays(r1) ==
    \/ now - conn[r1].tsAfter <= MSG_ID_CACHE_TTL
    \/ Size(processedMsgIds) <= MSG_ID_CACHE_MAX_SIZE \div 2

\* A request that was admitted and has returned launched its task.
AdmittedLaunches ==
    \A r \in Reqs : (conn[r].dup = "new" /\ conn[r].pc = "returned") => Launched(conn[r])

\* A request that was not admitted launched nothing.
OnlyAdmittedLaunch == \A r \in Reqs : Launched(conn[r]) => conn[r].dup = "new"

CheckedAfterOtherAccount(r1, r2) ==
    /\ r1 # r2
    /\ conn[r2].pc = "body"
    /\ conn'[r2].dup # "none"
    /\ conn[r1].dup = "new"
    /\ conn[r1].messageId \in DOMAIN processedMsgIds
    /\ MessageIdOf(conn[r1].msg) = MessageIdOf(conn'[r2].msg)
    /\ AccountOf(conn[r1].req).corpId # AccountOf(conn[r2].req).corpId

\* C36: the map is one for all accounts and keyed by the message identifier
\* alone: a delivery to one account whose identifier is still in the map
\* from a delivery to another account is answered as a duplicate and not
\* processed.
C36_DedupAcrossAccounts ==
    [][\A r1, r2 \in Reqs : CheckedAfterOtherAccount(r1, r2) => SecondIsDuplicate(r2)]_vars

\* A delivery to the second account was answered as a duplicate of one
\* admitted for the default account, acknowledged and not processed.
C36_Witness ==
    \E r1, r2 \in Reqs :
        /\ conn[r1].req.account = ""
        /\ conn[r2].req.account = "second"
        /\ conn[r1].dup = "new"
        /\ conn[r2].dup = "dup"
        /\ conn[r1].messageId = conn[r2].messageId
        /\ Acknowledged(conn[r2])
        /\ ~Launched(conn[r2])

\* This step is a call of isMessageProcessed made while the map holds at
\* most MAX_SIZE / 2 entries.
CallAtOrBelowHalf ==
    /\ calls' = calls + 1
    /\ 2 * Size(processedMsgIds) <= MSG_ID_CACHE_MAX_SIZE

\* The step leaves every entry of the map in place, with its timestamp.
NoEntryRemoved ==
    \A id \in DOMAIN processedMsgIds :
        /\ id \in DOMAIN processedMsgIds'
        /\ processedMsgIds'[id] = processedMsgIds[id]

\* C37: a call made while the map holds at most MAX_SIZE / 2 entries runs
\* no sweep and removes no entry, so an identifier that is in the map is
\* reported duplicate whatever its age, also beyond the TTL; between calls
\* the map does not change.
C37_NoSweepAtOrBelowHalf ==
    [][/\ CallAtOrBelowHalf =>
            /\ NoEntryRemoved
            /\ (lastCall'.tsBefore # NoTime => lastCall'.dup)
       /\ calls' = calls => processedMsgIds' = processedMsgIds]_vars

\* An identifier older than the TTL was reported duplicate by a call made
\* while the map held at most MAX_SIZE / 2 entries, other entries being
\* older than the TTL as well.
C37_Witness ==
    /\ lastCall.made
    /\ lastCall.dup
    /\ lastCall.id \in TrackedIds
    /\ lastCall.at - lastCall.tsBefore > MSG_ID_CACHE_TTL
    /\ lastCall.sizeBefore > 1
    /\ 2 * lastCall.sizeBefore <= MSG_ID_CACHE_MAX_SIZE
    /\ \A id \in DOMAIN processedMsgIds :
           lastCall.at - processedMsgIds[id] > MSG_ID_CACHE_TTL

\* An admitted request entered its identifier before it answered and before
\* it launched processInboundMessage.
InsertedAtAdmission ==
    \A r \in Reqs :
        conn[r].dup = "new" =>
            /\ conn[r].tsAfter # NoTime
            /\ Made(conn[r], "isMessageProcessed")
            /\ \A i \in DOMAIN conn[r].ev :
                   conn[r].ev[i] \in {"res.end", "downloadMedia", "processInboundMessage"}
                   => FirstAt(conn[r].ev, "isMessageProcessed") < i

\* Only the check of a request changes the map: no entry is taken out when
\* a task fails, a download fails or a message is dropped.
OnlyChecksChangeTheMap ==
    processedMsgIds' # processedMsgIds
    => \E r \in Reqs : conn[r].dup = "none" /\ conn'[r].dup # "none"

\* The processing of the admitted request failed, or its message was dropped
\* after admission.
FailedOrDropped(c) ==
    /\ c.dup = "new"
    /\ \/ c.task = "failed"
       \/ c.pc = "returned" /\ ~Launched(c)

\* In this step request r2 is checked, a retry of the message of request r1.
RetryCheck(r1, r2) ==
    /\ r1 # r2
    /\ conn[r2].pc = "body"
    /\ conn'[r2].dup # "none"
    /\ FailedOrDropped(conn[r1])
    /\ MessageIdOf(conn[r1].msg) = MessageIdOf(conn'[r2].msg)

\* C38: the identifier is put into the map at admission, before the
\* acknowledgment and before downstream processing, and stays there when
\* the processing fails or the message is dropped: while no sweep has taken
\* the entry out, a retry of that message is answered 200 "success" and is
\* not processed.
C38_FailedIsNotRetried ==
    /\ [](InsertedAtAdmission)
    /\ [][/\ OnlyChecksChangeTheMap
          /\ \A r1, r2 \in Reqs :
                 (RetryCheck(r1, r2) /\ EntryStays(r1)) => SecondIsDuplicate(r2)]_vars

\* The task of the first delivery failed; the second delivery of the same
\* message found the entry of the first, was answered as a duplicate and
\* was not processed.
C38_Witness ==
    \E r1, r2 \in Reqs :
        /\ r1 < r2
        /\ conn[r1].task = "failed"
        /\ conn[r2].dup = "dup"
        /\ conn[r2].messageId = conn[r1].messageId
        /\ conn[r2].tsBefore = conn[r1].tsAfter
        /\ Acknowledged(conn[r2])
        /\ ~Launched(conn[r2])

(***************************************************************************)
(* Further properties of deliver.                                          *)
(***************************************************************************)
\* C39: one call of deliver calls sendWeComMessage at most once, on every
\* path: with the text without the path after the file of the text was
\* sent, or with the reply text in the text step.
C39_OneTextMessage == Cardinality(TextOps(dlv)) <= 1

\* The file named in the text was sent and the caption that is left of the
\* text, a text the text step would not hold back, went out once.
C39_Witness ==
    /\ Delivered(dlv)
    /\ dlv.payload.text = Png \o <<" ">> \o Caption
    /\ FieldsOf(dlv.payload) = {}
    /\ dlv.tries = <<[stage |-> "text", path |-> Png, sent |-> TRUE]>>
    /\ TextOps(dlv) = {Len(dlv.ops)}
    /\ dlv.ops[Len(dlv.ops)].what = Caption
    /\ ~HeldBack(ReplyText(dlv.payload))

\* No call of sendMediaFile of the delivery has returned true.
NoMediaSent(d) == \A i \in DOMAIN d.tries : ~d.tries[i].sent

\* deliver has passed its text step.
PastTextStep(d) == d.pc \in {"message", "done"}

\* C40: the reply text is held back or shortened only after a file was sent
\* in the same delivery: a delivery that sent no file and has a reply text
\* calls sendWeComMessage with the whole text, also when the text begins
\* with an apology, names a defect, or holds the path of a file whose send
\* failed.
C40_TextKeptWithoutMedia ==
    /\ (PastTextStep(dlv) /\ NoMediaSent(dlv) /\ ReplyText(dlv.payload) # << >>)
       => /\ TextOps(dlv) = {Len(dlv.ops)}
          /\ dlv.ops[Len(dlv.ops)].what = ReplyText(dlv.payload)
    /\ \A i \in TextOps(dlv) :
          dlv.ops[i].what # ReplyText(dlv.payload)
          => \E j \in DOMAIN dlv.tries : dlv.tries[j].stage = "text" /\ dlv.tries[j].sent

\* The send of the file named in an apology failed, and the apology went
\* out whole, path included.
C40_Witness ==
    /\ Delivered(dlv)
    /\ dlv.payload.text = Sorry \o <<" ">> \o Png
    /\ dlv.tries = <<[stage |-> "text", path |-> Png, sent |-> FALSE]>>
    /\ dlv.ops[Len(dlv.ops)] = Op("sendWeComMessage", "text", Sorry \o <<" ">> \o Png)
    /\ \E i \in DOMAIN dlv.ops : dlv.ops[i].op = "uploadMedia"

====
